---- MODULE Spec2Model ----
(***************************************************************************)
(* A model of the BuildingLink client: the session state (cookies, token,  *)
(* history), the request and response hooks and the recursive fetch        *)
(* pipeline that runs them around the transport call.                      *)
(*                                                                         *)
(* Conventions.  A JavaScript value that may be undefined/null is a        *)
(* sequence of length at most one: None is undefined, Some(x) is x.  A     *)
(* string whose characters matter (a Set-Cookie entry, a cookie header) is *)
(* a sequence of chunks: the characters ";", "=", " " and "%" are chunks   *)
(* of their own, a percent escape such as "%3D" is one chunk, and every    *)
(* other chunk is a run of ordinary characters.  A JavaScript object with  *)
(* string keys is the sequence of its [name, value] entries in insertion   *)
(* order.  A URL is a record [origin, rooted, path, query]: origin "" is a *)
(* relative reference, rooted says that the reference starts with "/".     *)
(***************************************************************************)
EXTENDS Integers, Sequences, FiniteSets, TLC

VARIABLES
    history,    \* this.history: entries "[METHOD] url" of the requests checked
    options,    \* this.options: username, password, baseUrl, subscriptionKey
    cookies,    \* this.cookies: name -> value, in insertion order
    token,      \* this.token: the captured form data, or undefined
    hooks,      \* this.hooks: the request and response hook lists
    stack,      \* per top-level call: the fetch invocations in progress
    thrown,     \* per top-level call: the exception propagating, if any
    outcome,    \* per top-level call: the settled promise of the last call
    sent        \* the calls made to the transport (global fetch), in order

vars == <<history, options, cookies, token, hooks, stack, thrown, outcome, sent>>

-----------------------------------------------------------------------------
(* Bounds *)

\* Transport calls in one behaviour.
MaxTransport == 3

\* Transport calls in one behaviour with several callers in flight.
MaxConcurrentTransport == 2

\* Top-level callers of one client.
Tasks == {1, 2}

-----------------------------------------------------------------------------
(* Optional values and objects *)

None == <<>>
Some(x) == <<x>>
IsSome(o) == o # <<>>
Val(o) == o[1]

\* obj[name] = value on an object kept as its entries in insertion order.
SetEntry(obj, name, value) ==
    IF \E i \in 1..Len(obj) : obj[i].name = name
    THEN [i \in 1..Len(obj) |->
            IF obj[i].name = name THEN [name |-> name, value |-> value] ELSE obj[i]]
    ELSE Append(obj, [name |-> name, value |-> value])

\* name in obj
HasKey(obj, name) == \E i \in 1..Len(obj) : obj[i].name = name

\* obj[name], for a name the object has
Get(obj, name) == obj[CHOOSE i \in 1..Len(obj) : obj[i].name = name].value

-----------------------------------------------------------------------------
(* Strings as chunk sequences *)

\* String.prototype.split for a one-character separator.
RECURSIVE Split(_, _)
Split(s, sep) ==
    IF \A i \in 1..Len(s) : s[i] # sep
    THEN <<s>>
    ELSE LET k == CHOOSE i \in 1..Len(s) : s[i] = sep /\ \A j \in 1..(i-1) : s[j] # sep
         IN  <<SubSeq(s, 1, k-1)>> \o Split(SubSeq(s, k+1, Len(s)), sep)

\* String.prototype.trim
RECURSIVE Trim(_)
Trim(s) ==
    IF s = <<>> THEN s
    ELSE IF Head(s) = " " THEN Trim(Tail(s))
    ELSE IF s[Len(s)] = " " THEN Trim(SubSeq(s, 1, Len(s)-1))
    ELSE s

\* The percent escapes of the model and the character each stands for.
Escapes == {"%3D", "%3B", "%20"}
Unescape(c) == IF c = "%3D" THEN "=" ELSE IF c = "%3B" THEN ";" ELSE IF c = "%20" THEN " " ELSE c

\* decodeURIComponent: a "%" that does not start an escape raises URIError.
DecodeFails(s) == \E i \in 1..Len(s) : s[i] = "%"
DecodeURIComponent(s) == [i \in 1..Len(s) |-> Unescape(s[i])]

\* Array.prototype.join over strings
RECURSIVE Join(_, _)
Join(parts, sep) ==
    IF parts = <<>> THEN <<>>
    ELSE IF Len(parts) = 1 THEN parts[1]
    ELSE parts[1] \o sep \o Join(Tail(parts), sep)

-----------------------------------------------------------------------------
(* URLs *)

BUILDINGLINK_BASE_URL == "https://www.buildinglink.com"
BUILDINGLINK_API_BASE_URL == "https://api.buildinglink.com"
BUILDINGLINK_TENANT_PATH == "V2/Tenant"
BUILDINGLINK_HOME_PATH == "Home/DefaultNew.aspx"

\* The name of the session cookie tested by isAuthenticated.
AuthCookieName == <<"bl.auth.cookie.oidc">>

NoQuery == <<>>

Url(origin, path) == [origin |-> origin, rooted |-> TRUE, path |-> path, query |-> NoQuery]
Rel(path) == [origin |-> "", rooted |-> TRUE, path |-> path, query |-> NoQuery]
WithQuery(u, q) == [u EXCEPT !.query = q]

\* A relative reference that does not start with "/".
Ref(path) == [origin |-> "", rooted |-> FALSE, path |-> path, query |-> NoQuery]

\* new URL(location, base).toString() for a base that is an origin or an
\* absolute URL: an absolute location is kept, a relative one takes the
\* origin of the base.  (Only rooted references are resolved against a base
\* with a path; an unrooted one is resolved against the bare origin.)
Resolve(location, baseOrigin) ==
    IF location.origin # "" THEN location
    ELSE [location EXCEPT !.origin = baseOrigin, !.rooted = TRUE,
                          !.path = IF location.rooted THEN @ ELSE "/" \o @]

\* location.startsWith("/")
StartsWithSlash(location) == location.origin = "" /\ location.rooted

\* Faulty variant, for comparison: only the token endpoint itself is recognised.
IncludesOidc_tokenEndpointOnly(u) == u.path = "/oidc/token"

\* The strings of the model that contain "oidc".
OidcStrings == {"/oidc/token", "/oidc/callback"}

\* s.includes("oidc") over the text of a URL: origin, path and query values.
IncludesOidc(u) ==
    \/ u.origin \in OidcStrings
    \/ u.path \in OidcStrings
    \/ \E i \in 1..Len(u.query) : u.query[i].value \in OidcStrings

\* url.includes("users.us1.buildinglink.com") || url.includes("api.buildinglink.com")
IsApiUrl(u) == u.origin \in {"https://users.us1.buildinglink.com", BUILDINGLINK_API_BASE_URL}

\* String.prototype.toUpperCase on the method names of the model.
ToUpperCase(m) == IF m = "get" THEN "GET" ELSE IF m = "post" THEN "POST" ELSE m

-----------------------------------------------------------------------------
(* Errors *)

Err(name, message) == [name |-> name, message |-> message, entry |-> None, text |-> None]

\* new Error(`Circular redirect detected: ${histryEntry}`)
CircularRedirect(entry) == [Err("Error", "Circular redirect detected: ") EXCEPT !.entry = Some(entry)]

\* new Error(`Failed to login: ${errorMessage}`); errorMessage may be undefined
LoginFailed(errorMessage) == [Err("Error", "Failed to login: ") EXCEPT !.text = errorMessage]

\* Reading a property of undefined or null.
TypeError(what) == Err("TypeError", what)

URIError == Err("URIError", "URI malformed")

\* The transport rejects (network failure).
FetchFailed == Err("TypeError", "fetch failed")

-----------------------------------------------------------------------------
(* Requests, responses and documents *)

\* RequestInit
Request(method, headers, body, redirect) ==
    [method |-> method, headers |-> headers, body |-> body, redirect |-> redirect]

\* options = {} (the default of fetch, page and api)
EmptyRequest == Request(None, <<>>, None, None)

\* <input name=... value=...>; either attribute may be missing
Input(name, value) == [name |-> name, value |-> value]

\* <form action=...> with its input elements, in document order
Form(action, inputs) == [action |-> action, inputs |-> inputs]

\* The text of a body: its first form, the script assignment
\* window.top.location.href<gap>"<url>" and the text of the
\* validation-summary-errors block, each if present, and the rest of the text.
Body(form, script, errors, text) ==
    [form |-> form, script |-> script, errors |-> errors, text |-> text]

\* The empty string.
EmptyBody == Body(None, None, None, "")

\* parse(html): the queryable document; querySelector("form") is its first form.
parse(html) == [form |-> html.form]

\* A string is falsy when it is empty.
Truthy(html) == IsSome(html) /\ Val(html) # EmptyBody

\* Faulty variant, for comparison: the content type is compared as it is written.
IncludesTextHtml_caseSensitive(contentType) == contentType = "text/html; charset=utf-8"

\* contentType.includes("text/html") after toLowerCase()
HtmlTypes == {"text/html; charset=utf-8", "TEXT/HTML"}
IncludesTextHtml(contentType) == contentType \in HtmlTypes

\* Faulty variant, for comparison: the white space before "=" is required.
ScriptRedirect_needsSpace(html) ==
    IF /\ IsSome(html.script)
       /\ Val(html.script).gap = <<" ", "=">>
       /\ Val(html.script).url.origin # ""
    THEN Some(Val(html.script).url)
    ELSE None

\* html.match(/window\.top\.location\.href\s?="(https?:\/\/[^"]+)/):
\* at most one white-space character before "=", none after it, then an
\* absolute http(s) URL.  The result is the captured URL, or null.
ScriptRedirect(html) ==
    IF /\ IsSome(html.script)
       /\ Val(html.script).gap \in {<<"=">>, <<" ", "=">>}
       /\ Val(html.script).url.origin # ""
    THEN Some(Val(html.script).url)
    ELSE None

\* Faulty variant, for comparison: the block is never found.
ValidationSummary_noMatch(html) == None

\* html.match(/<div class="validation-summary-errors">(.*?)<\/div>/)?.[1]
ValidationSummary(html) == html.errors

\* A response as the transport returns it: html and document are not set
\* and the body has not been read.
Response(status, location, setCookie, contentType, body) ==
    [status |-> status, url |-> Url("", ""),
     headers |-> [location |-> location, setCookie |-> setCookie, contentType |-> contentType],
     body |-> body, bodyUsed |-> FALSE, html |-> None, document |-> None]

-----------------------------------------------------------------------------
(* The session and its hooks, as functions of the values they read *)

\* Faulty variant, for comparison: authenticated only once a token has been captured as well.
isAuthenticated_needsToken(jar) == HasKey(jar, AuthCookieName) /\ token # None

\* get isAuthenticated(): "bl.auth.cookie.oidc" in this.cookies
isAuthenticated(jar) == HasKey(jar, AuthCookieName)

\* `[${method.toUpperCase()}] ${url}` with method = request.method || "GET"
HistoryEntry(url, request) ==
    [method |-> ToUpperCase(IF IsSome(request.method) /\ Val(request.method) # ""
                            THEN Val(request.method) ELSE "GET"),
     url |-> url]

\* Faulty variant, for comparison: only the most recent entry is compared.
Includes_lastOnly(hist, entry) == hist # <<>> /\ hist[Len(hist)] = entry

\* this.history.includes(entry)
Includes(hist, entry) == \E i \in 1..Len(hist) : hist[i] = entry

\* Faulty variant, for comparison: the history is checked and extended in the authenticated state too.
addHistory_alwaysChecks(jar, hist, entry) ==
    IF Includes(hist, entry) THEN [history |-> hist, error |-> Some(CircularRedirect(entry))]
    ELSE [history |-> Append(hist, entry), error |-> None]

\* Faulty variant, for comparison: the authenticated session keeps its history.
addHistory_keepsHistory(jar, hist, entry) ==
    IF isAuthenticated(jar) THEN [history |-> hist, error |-> None]
    ELSE IF Includes(hist, entry) THEN [history |-> hist, error |-> Some(CircularRedirect(entry))]
    ELSE [history |-> Append(hist, entry), error |-> None]

\* Faulty variant, for comparison: a repeated entry is recorded, not refused.
addHistory_neverRefuses(jar, hist, entry) ==
    IF isAuthenticated(jar) THEN [history |-> <<>>, error |-> None]
    ELSE [history |-> Append(hist, entry), error |-> None]

\* addHistory(url, request): the history it leaves and the error it throws, if any
addHistory(jar, hist, entry) ==
    IF isAuthenticated(jar) THEN [history |-> <<>>, error |-> None]
    ELSE IF Includes(hist, entry) THEN [history |-> hist, error |-> Some(CircularRedirect(entry))]
    ELSE [history |-> Append(hist, entry), error |-> None]

\* Faulty variant, for comparison: the pairs are joined by ",".
CookieHeader_commaJoined(jar) ==
    Join([i \in 1..Len(jar) |-> jar[i].name \o <<"=">> \o jar[i].value], <<",">>)

\* The cookie header of addCookies: name=value pairs joined by "; ".
CookieHeader(jar) ==
    Join([i \in 1..Len(jar) |-> jar[i].name \o <<"=">> \o jar[i].value], <<";", " ">>)

\* addCookies(url, request): the request it resolves to
addCookies(jar, url, request) ==
    IF IsApiUrl(url) THEN request
    ELSE [request EXCEPT !.headers = SetEntry(@, "cookie", CookieHeader(jar))]

\* updateCookies: the forEach over getSetCookie().  The result is the jar
\* after the entries stored before the first failure, and the failure if any.
RECURSIVE updateCookies(_, _)
updateCookies(jar, entries) ==
    IF entries = <<>> THEN [cookies |-> jar, error |-> None]
    ELSE LET parts == Split(Split(Head(entries), ";")[1], "=")
             name  == parts[1]
         IN  IF Len(parts) < 2
             THEN [cookies |-> jar, error |-> Some(TypeError("value is undefined"))]
             ELSE IF DecodeFails(Trim(parts[2]))
             THEN [cookies |-> jar, error |-> Some(URIError)]
             ELSE updateCookies(SetEntry(jar, Trim(name), DecodeURIComponent(Trim(parts[2]))),
                                Tail(entries))

\* handleHTMLResponse: the response it resolves to
handleHTMLResponse(response) ==
    IF /\ ~(IsSome(response.headers.contentType)
             /\ IncludesTextHtml(Val(response.headers.contentType)))
       /\ ~Truthy(response.html)
    THEN response
    ELSE [response EXCEPT !.html = Some(response.body),
                          !.document = Some(parse(response.body)),
                          !.bodyUsed = TRUE]

\* The formData object built by handleAuthentication from the inputs of the form.
RECURSIVE FormData(_, _, _)
FormData(inputs, username, password) ==
    IF inputs = <<>> THEN <<>>
    ELSE LET elm   == inputs[Len(inputs)]
             name  == IF IsSome(elm.name) THEN Val(elm.name) ELSE "undefined"
             value == IF elm.name = Some("Username") THEN Some(username)
                      ELSE IF elm.name = Some("Password") THEN Some(password)
                      ELSE elm.value
         IN  SetEntry(FormData(SubSeq(inputs, 1, Len(inputs)-1), username, password),
                      name, value)

\* new URLSearchParams(formData): every value converted to a string
URLSearchParams(formData) ==
    [i \in 1..Len(formData) |->
        [name |-> formData[i].name,
         value |-> IF IsSome(formData[i].value) THEN Val(formData[i].value) ELSE "undefined"]]

\* Faulty variant, for comparison: the location is resolved against the portal origin.
RedirectLocation_againstBase(location, responseUrl) ==
    IF StartsWithSlash(location)
    THEN LET url == Resolve(location, BUILDINGLINK_BASE_URL)
         IN  IF HasKey(url.query, "scope") /\ Get(url.query, "scope") # ""
             THEN [url EXCEPT !.query =
                      SetEntry(@, "scope", Get(url.query, "scope") \o " internal_resident_app_apis")]
             ELSE url
    ELSE location

\* The location handleRedirects follows for a Location header that starts
\* with "/": resolved against response.url, with the scope parameter, if
\* it has one, extended by internal_resident_app_apis.
RedirectLocation(location, responseUrl) ==
    IF StartsWithSlash(location)
    THEN LET url == Resolve(location, responseUrl.origin)
         IN  IF HasKey(url.query, "scope") /\ Get(url.query, "scope") # ""
             THEN [url EXCEPT !.query =
                      SetEntry(@, "scope", Get(url.query, "scope") \o " internal_resident_app_apis")]
             ELSE url
    ELSE location

-----------------------------------------------------------------------------
(* The portal and the callers: the inputs of the model *)

HomeUrl == Url(BUILDINGLINK_BASE_URL, "/V2/Tenant/Home/DefaultNew.aspx")

TextHtml == Some("text/html; charset=utf-8")

\* Set-Cookie: bl.auth.cookie.oidc=chunks%3D2; path=/
AuthSetCookie == <<"bl.auth.cookie.oidc", "=", "chunks", "%3D", "2", ";", " ", "path", "=", "/">>

\* Set-Cookie: ASP.NET_SessionId=abc; path=/; secure
SessionSetCookie == <<"ASP.NET_SessionId", "=", "abc", ";", " ", "path", "=", "/", ";", " ", "secure">>

\* Set-Cookie: csrf=a=b; path=/
CsrfSetCookie == <<"csrf", "=", "a", "=", "b", ";", " ", "path", "=", "/">>

\* Set-Cookie: theme=dark%3Bwide; path=/
ThemeSetCookie == <<"theme", "=", "dark", "%3B", "wide", ";", " ", "path", "=", "/">>

\* Set-Cookie: pref=100%; path=/
BadSetCookie == <<"pref", "=", "100", "%", ";", " ", "path", "=", "/">>

HomeBody == Body(None, None, None, "<h1>Home</h1>")

\* The login page: a form with a hidden field, the two credential fields and
\* a submit input that has no name.
LoginBody ==
    Body(Some(Form(Some(Rel("/login")),
                   <<Input(Some("ReturnUrl"), Some("/dashboard")),
                     Input(Some("Username"), Some("")),
                     Input(Some("Password"), Some("")),
                     Input(None, Some("Log in"))>>)),
         None, None, "")

\* The login page reached from the OIDC flow: the action of its form names
\* the way back in its query, /login?ReturnUrl=/oidc/callback.
ReturnLoginBody ==
    Body(Some(Form(Some(WithQuery(Rel("/login"),
                                  <<[name |-> "ReturnUrl", value |-> "/oidc/callback"]>>)),
                   <<Input(Some("Username"), Some("")),
                     Input(Some("Password"), Some(""))>>)),
         None, None, "")

\* The page that posts the OIDC answer back to the portal.
OidcBody ==
    Body(Some(Form(Some(Rel("/oidc/callback")),
                   <<Input(Some("code"), Some("auth_code")),
                     Input(Some("id_token"), Some("id_token_value")),
                     Input(Some("access_token"), Some("access_token_value"))>>)),
         None, None, "")

ScriptBody == Body(None, Some([gap |-> <<"=">>, url |-> HomeUrl]), None, "")

\* <script>window.top.location.href = "https://www.buildinglink.com/V2/Tenant/Home/DefaultNew.aspx";</script>
SpacedScriptBody == Body(None, Some([gap |-> <<" ", "=", " ">>, url |-> HomeUrl]), None, "")

ErrorBody == Body(None, None, Some("Invalid credentials"), "")

\* The body of an error answered as JSON.
JsonErrorBody == Body(None, None, None, "{\"error\":\"invalid_request\"}")

\* What the portal may answer to a request, whatever the request is.
PortalResponses ==
    { Response(200, None, <<>>, TextHtml, HomeBody),
      Response(200, None, <<>>, TextHtml, LoginBody),
      Response(200, None, <<>>, TextHtml, ReturnLoginBody),
      Response(200, None, <<>>, Some("TEXT/HTML"), OidcBody),
      Response(200, None, <<>>, TextHtml, ScriptBody),
      Response(200, None, <<BadSetCookie>>, TextHtml, HomeBody),
      Response(200, None, <<AuthSetCookie>>, TextHtml, SpacedScriptBody),
      Response(200, None, <<AuthSetCookie, ThemeSetCookie>>, Some("application/json"), HomeBody),
      Response(302, Some(Rel("/login")), <<SessionSetCookie, CsrfSetCookie>>, None, EmptyBody),
      Response(302, Some(WithQuery(Rel("/connect/authorize"),
                                   <<[name |-> "scope", value |-> "openid"]>>)),
               <<>>, TextHtml, ScriptBody),
      Response(302, Some(HomeUrl), <<AuthSetCookie>>, None, EmptyBody),
      Response(302, None, <<>>, None, EmptyBody),
      Response(400, None, <<>>, TextHtml, ErrorBody),
      Response(400, None, <<>>, Some("application/json"), JsonErrorBody),
      Response(400, None, <<AuthSetCookie>>, TextHtml, ErrorBody) }

\* The calls of fetch made by the users of the client: [url, options].
CallerInputs ==
    { [url |-> Rel("/V2/Tenant/Home/DefaultNew.aspx"), options |-> EmptyRequest],
      [url |-> HomeUrl,
       options |-> Request(Some("get"),
                           <<[name |-> "cookie", value |-> <<"stale", "=", "1">>],
                             [name |-> "Accept", value |-> <<"text/html">>]>>,
                           None, Some("follow"))] }

\* The calls of page made by the users of the client: [path, options].
PageInputs == { [path |-> BUILDINGLINK_HOME_PATH, options |-> EmptyRequest] }

\* The calls of api made by the users of the client: [path, options].
ApiInputs ==
    { [path |-> "Properties/AuthenticatedUser/v1/property/occupant/get",
       options |-> Request(None, <<[name |-> "Accept", value |-> <<"application/json">>]>>,
                           None, None)] }

\* new BuildingLink({username, password})
Credentials == [username |-> "testuser", password |-> "testpass"]

\* The options the client is constructed with: the credentials alone, or
\* with a base URL of its own and the two keys.
ConstructorInputs ==
    { [username |-> Credentials.username, password |-> Credentials.password,
       baseUrl |-> None, subscriptionKey |-> None, apiKey |-> None],
      [username |-> Credentials.username, password |-> Credentials.password,
       baseUrl |-> Some("https://test.example.com"),
       subscriptionKey |-> Some("sub-key"), apiKey |-> Some("api-key")] }

\* this.options = { baseUrl: BUILDINGLINK_BASE_URL, ...options }
BuildingLinkOptions(o) ==
    [o EXCEPT !.baseUrl = IF IsSome(o.baseUrl) THEN Val(o.baseUrl) ELSE BUILDINGLINK_BASE_URL]

-----------------------------------------------------------------------------
(* The state after construction *)

\* One invocation of fetch: its resolved url, its options, where it is
\* (pc, and idx into the hook list it is running), the response it holds,
\* what called it and the transport calls it has issued itself.
Frame(url, request, via) ==
    [url |-> url, request |-> request, pc |-> "request", idx |-> 1,
     response |-> None, via |-> via, calls |-> 0]

NoOutcome == [state |-> "none", response |-> None, error |-> None]

\* Faulty variant, for comparison: the cookie hooks are registered first.
Init_cookiesFirst ==
    /\ history = <<>>
    /\ options \in {BuildingLinkOptions(o) : o \in ConstructorInputs}
    /\ cookies = <<>>
    /\ token = None
    /\ hooks = [requests  |-> <<"addCookies", "addHistory">>,
                responses |-> <<"handleHTMLResponse", "updateCookies",
                                "handleRedirects", "handleAuthentication">>]
    /\ stack = [t \in Tasks |-> <<>>]
    /\ thrown = [t \in Tasks |-> None]
    /\ outcome = [t \in Tasks |-> NoOutcome]
    /\ sent = <<>>

\* Faulty variant, for comparison: the cookies are captured after the other hooks.
Init_cookiesLast ==
    /\ history = <<>>
    /\ options \in {BuildingLinkOptions(o) : o \in ConstructorInputs}
    /\ cookies = <<>>
    /\ token = None
    /\ hooks = [requests  |-> <<"addHistory", "addCookies">>,
                responses |-> <<"handleHTMLResponse", "handleRedirects",
                                "handleAuthentication", "updateCookies">>]
    /\ stack = [t \in Tasks |-> <<>>]
    /\ thrown = [t \in Tasks |-> None]
    /\ outcome = [t \in Tasks |-> NoOutcome]
    /\ sent = <<>>

Init ==
    /\ history = <<>>
    /\ options \in {BuildingLinkOptions(o) : o \in ConstructorInputs}
    /\ cookies = <<>>
    /\ token = None
    /\ hooks = [requests  |-> <<"addHistory", "addCookies">>,
                responses |-> <<"updateCookies", "handleHTMLResponse",
                                "handleRedirects", "handleAuthentication">>]
    /\ stack = [t \in Tasks |-> <<>>]
    /\ thrown = [t \in Tasks |-> None]
    /\ outcome = [t \in Tasks |-> NoOutcome]
    /\ sent = <<>>

-----------------------------------------------------------------------------
(* Steps of the fetch pipeline *)

Depth(t) == Len(stack[t])
Top(t) == stack[t][Depth(t)]

\* The invocation on top of the stack of t is running (nothing is thrown).
Running(t) == stack[t] # <<>> /\ thrown[t] = None

\* Faulty variant, for comparison: the options a hook returns are dropped.
AfterRequestHook_dropsResult(f, request) ==
    IF f.idx + 1 > Len(hooks.requests)
    THEN [f EXCEPT !.pc = "transport", !.idx = 1]
    ELSE [f EXCEPT !.idx = @ + 1]

\* The request hook at idx is done: the next one, or the transport call.
AfterRequestHook(f, request) ==
    IF f.idx + 1 > Len(hooks.requests)
    THEN [f EXCEPT !.request = request, !.pc = "transport", !.idx = 1]
    ELSE [f EXCEPT !.request = request, !.idx = @ + 1]

\* Faulty variant, for comparison: the response a hook returns is dropped.
AfterResponseHook_dropsResult(f, response) ==
    IF f.idx + 1 > Len(hooks.responses)
    THEN [f EXCEPT !.pc = "return", !.idx = 1]
    ELSE [f EXCEPT !.pc = "response", !.idx = @ + 1]

\* The response hook at idx is done: the next one, or the return.
AfterResponseHook(f, response) ==
    IF f.idx + 1 > Len(hooks.responses)
    THEN [f EXCEPT !.response = Some(response), !.pc = "return", !.idx = 1]
    ELSE [f EXCEPT !.response = Some(response), !.pc = "response", !.idx = @ + 1]

SetTop(t, f) == stack' = [stack EXCEPT ![t][Depth(t)] = f]

\* The top invocation awaits this.fetch(location, request): fetch resolves
\* the location against BUILDINGLINK_BASE_URL and starts its hooks.
Await(t, pc, location, request, via) ==
    stack' = [stack EXCEPT ![t] =
                 Append([@ EXCEPT ![Depth(t)].pc = pc],
                        Frame(Resolve(location, BUILDINGLINK_BASE_URL), request, via))]

Throw(t, error) == thrown' = [thrown EXCEPT ![t] = Some(error)]

\* A user of the client calls fetch(url, options).
FetchCall(t) ==
    /\ stack[t] = <<>>
    /\ thrown[t] = None
    /\ Len(sent) < MaxTransport
    /\ \E in \in CallerInputs :
          stack' = [stack EXCEPT ![t] =
                       <<Frame(Resolve(in.url, BUILDINGLINK_BASE_URL), in.options, "caller")>>]
    /\ outcome' = [outcome EXCEPT ![t] = [NoOutcome EXCEPT !.state = "pending"]]
    /\ UNCHANGED <<history, options, cookies, token, hooks, thrown, sent>>

\* page(path, options): the arguments it calls fetch with.
page(path, request) ==
    [url |-> Ref(BUILDINGLINK_TENANT_PATH \o "/" \o path), options |-> request]

\* Faulty variant, for comparison: the ID token is sent as the bearer token.
Bearer_idToken(tok) ==
    <<"Bearer", " ",
      IF IsSome(tok) /\ HasKey(Val(tok), "id_token")
            /\ IsSome(Get(Val(tok), "id_token"))
      THEN Val(Get(Val(tok), "id_token"))
      ELSE "undefined">>

\* `Bearer ${this.token?.access_token}`
Bearer(tok) ==
    <<"Bearer", " ",
      IF IsSome(tok) /\ HasKey(Val(tok), "access_token")
            /\ IsSome(Get(Val(tok), "access_token"))
      THEN Val(Get(Val(tok), "access_token"))
      ELSE "undefined">>

\* api(path, options): the arguments it calls fetch with.  A subscription
\* key that is undefined reads "undefined" as a header value.
api(tok, opts, path, request) ==
    [url |-> Resolve(Ref(path), BUILDINGLINK_API_BASE_URL),
     options |-> [request EXCEPT !.headers =
                     SetEntry(SetEntry(@, "Authorization", Bearer(tok)),
                              "ocp-apim-subscription-key",
                              IF IsSome(opts.subscriptionKey)
                              THEN <<Val(opts.subscriptionKey)>> ELSE <<"undefined">>)]]

\* A user of the client calls page(path, options).
PageCall(t) ==
    /\ stack[t] = <<>>
    /\ thrown[t] = None
    /\ Len(sent) < MaxTransport
    /\ \E in \in PageInputs :
          LET call == page(in.path, in.options)
          IN  stack' = [stack EXCEPT ![t] =
                  <<Frame(Resolve(call.url, BUILDINGLINK_BASE_URL), call.options, "caller")>>]
    /\ outcome' = [outcome EXCEPT ![t] = [NoOutcome EXCEPT !.state = "pending"]]
    /\ UNCHANGED <<history, options, cookies, token, hooks, thrown, sent>>

\* A user of the client calls api(path, options).
ApiCall(t) ==
    /\ stack[t] = <<>>
    /\ thrown[t] = None
    /\ Len(sent) < MaxTransport
    /\ \E in \in ApiInputs :
          LET call == api(token, options, in.path, in.options)
          IN  stack' = [stack EXCEPT ![t] =
                  <<Frame(Resolve(call.url, BUILDINGLINK_BASE_URL), call.options, "caller")>>]
    /\ outcome' = [outcome EXCEPT ![t] = [NoOutcome EXCEPT !.state = "pending"]]
    /\ UNCHANGED <<history, options, cookies, token, hooks, thrown, sent>>

\* Request hook addHistory.
AddHistory(t) ==
    /\ Running(t)
    /\ Top(t).pc = "request"
    /\ hooks.requests[Top(t).idx] = "addHistory"
    /\ LET f == Top(t)
           r == addHistory(cookies, history, HistoryEntry(f.url, f.request))
       IN  /\ history' = r.history
           /\ IF IsSome(r.error)
              THEN Throw(t, Val(r.error)) /\ UNCHANGED stack
              ELSE SetTop(t, AfterRequestHook(f, f.request)) /\ UNCHANGED thrown
    /\ UNCHANGED <<options, cookies, token, hooks, outcome, sent>>

\* Request hook addCookies.
AddCookies(t) ==
    /\ Running(t)
    /\ Top(t).pc = "request"
    /\ hooks.requests[Top(t).idx] = "addCookies"
    /\ SetTop(t, AfterRequestHook(Top(t), addCookies(cookies, Top(t).url, Top(t).request)))
    /\ UNCHANGED <<history, options, cookies, token, hooks, thrown, outcome, sent>>

\* The record of one transport call: fetch(url, { ...options, redirect: "manual" }).
\* Faulty variant, for comparison: { redirect: "manual", ...options }, the options of the caller win.
TransportCall_optionsWin(t) ==
    [task |-> t, depth |-> Depth(t), url |-> Top(t).url, options |-> Top(t).request,
     init |-> IF IsSome(Top(t).request.redirect) THEN Top(t).request
              ELSE [Top(t).request EXCEPT !.redirect = Some("manual")],
     authenticated |-> HasKey(cookies, AuthCookieName)]

\* options are the options after the request hooks, init is what the transport
\* gets, authenticated says whether the session cookie is held at the call.
TransportCall(t) ==
    [task |-> t, depth |-> Depth(t), url |-> Top(t).url, options |-> Top(t).request,
     init |-> [Top(t).request EXCEPT !.redirect = Some("manual")],
     authenticated |-> HasKey(cookies, AuthCookieName)]

\* The first response hook, or the return when there is none.
AfterTransport(f, response) ==
    IF hooks.responses = <<>>
    THEN [f EXCEPT !.response = Some(response), !.pc = "return", !.calls = @ + 1]
    ELSE [f EXCEPT !.response = Some(response), !.pc = "response", !.idx = 1, !.calls = @ + 1]

\* The transport call, answered by the portal.
Transport(t) ==
    /\ Running(t)
    /\ Top(t).pc = "transport"
    /\ Len(sent) < MaxTransport
    /\ sent' = Append(sent, TransportCall(t))
    /\ \E r \in PortalResponses :
          SetTop(t, AfterTransport(Top(t), [r EXCEPT !.url = Top(t).url]))
    /\ UNCHANGED <<history, options, cookies, token, hooks, thrown, outcome>>

\* The transport call, failing (the promise of the transport rejects).
TransportFails(t) ==
    /\ Running(t)
    /\ Top(t).pc = "transport"
    /\ Len(sent) < MaxTransport
    /\ sent' = Append(sent, TransportCall(t))
    /\ SetTop(t, [Top(t) EXCEPT !.calls = @ + 1])
    /\ Throw(t, FetchFailed)
    /\ UNCHANGED <<history, options, cookies, token, hooks, outcome>>

\* The top invocation is about to run the response hook named h.
AtResponseHook(t, h) ==
    /\ Running(t)
    /\ Top(t).pc = "response"
    /\ hooks.responses[Top(t).idx] = h

\* Response hook updateCookies.
UpdateCookies(t) ==
    /\ AtResponseHook(t, "updateCookies")
    /\ LET f == Top(t)
           r == updateCookies(cookies, Val(f.response).headers.setCookie)
       IN  /\ cookies' = r.cookies
           /\ IF IsSome(r.error)
              THEN Throw(t, Val(r.error)) /\ UNCHANGED stack
              ELSE SetTop(t, AfterResponseHook(f, Val(f.response))) /\ UNCHANGED thrown
    /\ UNCHANGED <<history, options, token, hooks, outcome, sent>>

\* Response hook handleHTMLResponse.
HandleHTMLResponse(t) ==
    /\ AtResponseHook(t, "handleHTMLResponse")
    /\ SetTop(t, AfterResponseHook(Top(t), handleHTMLResponse(Val(Top(t).response))))
    /\ UNCHANGED <<history, options, cookies, token, hooks, thrown, outcome, sent>>

\* The HTTP status codes handleRedirects follows.
RedirectStatus == {301, 302, 307}

\* The second half of handleRedirects, on the response it now holds: follow
\* the script redirect of the html, or be done with the hook.
ScriptRedirectStep(t, response) ==
    IF Truthy(response.html) /\ IsSome(ScriptRedirect(Val(response.html)))
    THEN Await(t, "awaitScript", Val(ScriptRedirect(Val(response.html))), EmptyRequest, "script")
    ELSE SetTop(t, AfterResponseHook(Top(t), response))

\* Faulty variant, for comparison: a redirect status without location is
\* passed on as if it were no redirect.
HandleRedirects_ignoresMissingLocation(t) ==
    /\ AtResponseHook(t, "handleRedirects")
    /\ LET response == Val(Top(t).response)
           location == response.headers.location
       IN  IF response.status \in RedirectStatus /\ location # None
           THEN Await(t, "awaitRedirect", RedirectLocation(Val(location), response.url),
                      EmptyRequest, "redirect")
           ELSE ScriptRedirectStep(t, response)
    /\ UNCHANGED <<history, options, cookies, token, hooks, thrown, outcome, sent>>

\* Response hook handleRedirects, up to its first await (or to its end).
HandleRedirects(t) ==
    /\ AtResponseHook(t, "handleRedirects")
    /\ LET response == Val(Top(t).response)
           location == response.headers.location
       IN  IF response.status \in RedirectStatus
           THEN IF location = None
                THEN Throw(t, TypeError("location is null")) /\ UNCHANGED stack
                ELSE /\ Await(t, "awaitRedirect", RedirectLocation(Val(location), response.url),
                              EmptyRequest, "redirect")
                     /\ UNCHANGED thrown
           ELSE ScriptRedirectStep(t, response) /\ UNCHANGED thrown
    /\ UNCHANGED <<history, options, cookies, token, hooks, outcome, sent>>

\* handleRedirects after the fetch of the Location has returned.
HandleScriptRedirect(t) ==
    /\ Running(t)
    /\ Top(t).pc = "scriptRedirect"
    /\ ScriptRedirectStep(t, Val(Top(t).response))
    /\ UNCHANGED <<history, options, cookies, token, hooks, thrown, outcome, sent>>

\* The target of the login form: its action attribute, or response.url.
FormAction(response) ==
    LET form == Val(response.document).form
    IN  IF IsSome(form) /\ IsSome(Val(form).action) /\ Val(Val(form).action) # Rel("")
        THEN Val(Val(form).action)
        ELSE response.url

\* The inputs of the login form: none when there is no form.
FormInputs(response) ==
    LET form == Val(response.document).form
    IN  IF IsSome(form) THEN Val(form).inputs ELSE <<>>

\* The options of the form submission.
FormRequest(formData) ==
    Request(Some("POST"),
            <<[name |-> "Content-Type", value |-> <<"application/x-www-form-urlencoded">>]>>,
            Some(URLSearchParams(formData)), None)

\* Faulty variant, for comparison: the token is captured before the guard is tested.
handleAuthentication_captureBeforeGuard(jar, tok, opts, response) ==
    LET captured == IF IsSome(response.document) /\ IncludesOidc(FormAction(response))
                    THEN Some(FormData(FormInputs(response), opts.username, opts.password))
                    ELSE tok
    IN  IF isAuthenticated(jar)
        THEN [do |-> "return", token |-> captured, action |-> response.url, request |-> EmptyRequest]
        ELSE IF response.document = None
        THEN [do |-> "throw", token |-> tok, action |-> response.url, request |-> EmptyRequest]
        ELSE [do |-> "submit", token |-> captured, action |-> FormAction(response),
              request |-> FormRequest(FormData(FormInputs(response), opts.username, opts.password))]

\* Faulty variant, for comparison: the token is not stored at the submission.
handleAuthentication_noSnapshot(jar, tok, opts, response) ==
    IF isAuthenticated(jar)
    THEN [do |-> "return", token |-> tok, action |-> response.url, request |-> EmptyRequest]
    ELSE IF response.document = None
    THEN [do |-> "throw", token |-> tok, action |-> response.url, request |-> EmptyRequest]
    ELSE [do |-> "submit", token |-> tok, action |-> FormAction(response),
          request |-> FormRequest(FormData(FormInputs(response), opts.username, opts.password))]

\* Faulty variant, for comparison: a page without a form is returned as it is.
handleAuthentication_skipsWithoutForm(jar, tok, opts, response) ==
    IF isAuthenticated(jar)
    THEN [do |-> "return", token |-> tok, action |-> response.url, request |-> EmptyRequest]
    ELSE IF response.document = None
    THEN [do |-> "throw", token |-> tok, action |-> response.url, request |-> EmptyRequest]
    ELSE IF Val(response.document).form = None
    THEN [do |-> "return", token |-> tok, action |-> response.url, request |-> EmptyRequest]
    ELSE LET action == FormAction(response)
             formData == FormData(FormInputs(response), opts.username, opts.password)
         IN  [do |-> "submit",
              token |-> IF IncludesOidc(action) THEN Some(formData) ELSE tok,
              action |-> action, request |-> FormRequest(formData)]

\* handleAuthentication up to the submission of the form: what it does
\* ("return" the response, "throw", or "submit" the form), the token it
\* leaves, and the target and options of the submission.
handleAuthentication(jar, tok, opts, response) ==
    IF isAuthenticated(jar)
    THEN [do |-> "return", token |-> tok, action |-> response.url, request |-> EmptyRequest]
    ELSE IF response.document = None
    THEN [do |-> "throw", token |-> tok, action |-> response.url, request |-> EmptyRequest]
    ELSE LET action == FormAction(response)
             formData == FormData(FormInputs(response), opts.username, opts.password)
         IN  [do |-> "submit",
              token |-> IF IncludesOidc(action) THEN Some(formData) ELSE tok,
              action |-> action, request |-> FormRequest(formData)]

\* Response hook handleAuthentication, up to the submission of the form.
HandleAuthentication(t) ==
    /\ AtResponseHook(t, "handleAuthentication")
    /\ LET response == Val(Top(t).response)
           r == handleAuthentication(cookies, token, options, response)
       IN  /\ token' = r.token
           /\ IF r.do = "return"
              THEN SetTop(t, AfterResponseHook(Top(t), response)) /\ UNCHANGED thrown
              ELSE IF r.do = "throw"
              THEN Throw(t, TypeError("response.document is undefined")) /\ UNCHANGED stack
              ELSE Await(t, "awaitLogin", r.action, r.request, "login") /\ UNCHANGED thrown
    /\ UNCHANGED <<history, options, cookies, hooks, outcome, sent>>

\* handleAuthentication after the submission has returned formResponse.
HandleLoginResult(t) ==
    /\ Running(t)
    /\ Top(t).pc = "loginResult"
    /\ LET formResponse == Val(Top(t).response)
       IN  IF formResponse.status # 200
           THEN /\ Throw(t, IF formResponse.html = None
                            THEN TypeError("html is undefined")
                            ELSE LoginFailed(ValidationSummary(Val(formResponse.html))))
                /\ UNCHANGED stack
           ELSE /\ SetTop(t, AfterResponseHook(Top(t), formResponse))
                /\ UNCHANGED thrown
    /\ UNCHANGED <<history, options, cookies, token, hooks, outcome, sent>>

\* Faulty variant, for comparison: the result of the location's fetch is
\* returned without the script check.
Resume_skipsScriptCheck(f, response) ==
    IF f.pc = "awaitLogin" THEN [f EXCEPT !.response = Some(response), !.pc = "loginResult"]
    ELSE AfterResponseHook(f, response)

\* Faulty variant, for comparison: the awaiting hook goes on with the
\* response it had, not with the one the awaited fetch returns.
Resume_keepsOwnResponse(f, response) ==
    IF f.pc = "awaitRedirect" THEN [f EXCEPT !.pc = "scriptRedirect"]
    ELSE IF f.pc = "awaitLogin" THEN [f EXCEPT !.pc = "loginResult"]
    ELSE AfterResponseHook(f, Val(f.response))

\* Where an awaiting invocation continues once the fetch it awaits returns.
Resume(f, response) ==
    IF f.pc = "awaitRedirect" THEN [f EXCEPT !.response = Some(response), !.pc = "scriptRedirect"]
    ELSE IF f.pc = "awaitLogin" THEN [f EXCEPT !.response = Some(response), !.pc = "loginResult"]
    ELSE AfterResponseHook(f, response)

\* fetch returns its response: to the invocation that awaits it, or to the caller.
FetchReturn(t) ==
    /\ Running(t)
    /\ Top(t).pc = "return"
    /\ LET response == Val(Top(t).response)
       IN  IF Depth(t) = 1
           THEN /\ stack' = [stack EXCEPT ![t] = <<>>]
                /\ outcome' = [outcome EXCEPT ![t] =
                       [state |-> "fulfilled", response |-> Some(response), error |-> None]]
           ELSE /\ stack' = [stack EXCEPT ![t] =
                       [SubSeq(@, 1, Depth(t) - 1) EXCEPT
                           ![Depth(t) - 1] = Resume(@, response)]]
                /\ UNCHANGED outcome
    /\ UNCHANGED <<history, options, cookies, token, hooks, thrown, sent>>

\* Faulty variant, for comparison: the invocation that awaits a failed
\* fetch catches the exception and goes on with the response it has.
FetchReject_caughtByParent(t) ==
    /\ stack[t] # <<>>
    /\ thrown[t] # None
    /\ thrown' = [thrown EXCEPT ![t] = None]
    /\ IF Depth(t) = 1
       THEN /\ stack' = [stack EXCEPT ![t] = <<>>]
            /\ outcome' = [outcome EXCEPT ![t] =
                   [state |-> "rejected", response |-> None, error |-> thrown[t]]]
       ELSE /\ stack' = [stack EXCEPT ![t] =
                   [SubSeq(@, 1, Depth(t) - 1) EXCEPT
                       ![Depth(t) - 1] = AfterResponseHook(@, Val(@.response))]]
            /\ UNCHANGED outcome
    /\ UNCHANGED <<history, options, cookies, token, hooks, sent>>

\* An exception leaves the invocation on top: the invocation that awaits it
\* has no handler and rejects in its turn; the caller sees the rejection.
FetchReject(t) ==
    /\ stack[t] # <<>>
    /\ thrown[t] # None
    /\ stack' = [stack EXCEPT ![t] = SubSeq(@, 1, Depth(t) - 1)]
    /\ IF Depth(t) = 1
       THEN /\ outcome' = [outcome EXCEPT ![t] =
                   [state |-> "rejected", response |-> None, error |-> thrown[t]]]
            /\ thrown' = [thrown EXCEPT ![t] = None]
       ELSE UNCHANGED <<outcome, thrown>>
    /\ UNCHANGED <<history, options, cookies, token, hooks, sent>>

-----------------------------------------------------------------------------
(* Specifications *)

Step(t) ==
    \/ FetchCall(t)
    \/ PageCall(t)
    \/ ApiCall(t)
    \/ AddHistory(t)
    \/ AddCookies(t)
    \/ Transport(t)
    \/ TransportFails(t)
    \/ UpdateCookies(t)
    \/ HandleHTMLResponse(t)
    \/ HandleRedirects(t)
    \/ HandleScriptRedirect(t)
    \/ HandleAuthentication(t)
    \/ HandleLoginResult(t)
    \/ FetchReturn(t)
    \/ FetchReject(t)

\* One top-level call in flight at a time.
Next == Step(1)

Spec == Init /\ [][Next]_vars

\* Top-level calls of several callers in flight at once, one call for each
\* caller: the steps of their pipelines interleave at the awaits.
NextConcurrent ==
    \E t \in Tasks :
        /\ Step(t)
        /\ stack[t] = <<>> => outcome[t].state = "none"
        /\ Len(sent') <= MaxConcurrentTransport

SpecConcurrent == Init /\ [][NextConcurrent]_vars

-----------------------------------------------------------------------------
(* Properties *)

\* The session cookie is a key of the cookie mapping.
SessionCookiePresent ==
    \E i \in 1..Len(cookies) : cookies[i].name = <<"bl.auth.cookie.oidc">>

\* The exception, if any, is the loop-detection error.
IsCircular(e) == IsSome(e) /\ Val(e).message = "Circular redirect detected: "

\* The "[METHOD] url" pair of the i-th transport call.
SentPair(i) == HistoryEntry(sent[i].url, sent[i].options)

\* C1: in every reachable state isAuthenticated is true exactly when the
\* cookie mapping has the key bl.auth.cookie.oidc, whatever the value of that
\* cookie, the token, the history and the options are.
C1_AuthenticatedIffSessionCookie ==
    isAuthenticated(cookies) <=> SessionCookiePresent

\* C1 witness: the session cookie is held while no token was ever captured
\* and the history is not empty, and the client counts as authenticated.
C1_Witness ==
    /\ SessionCookiePresent
    /\ isAuthenticated(cookies)
    /\ token = None
    /\ history # <<>>

\* C3: while the session cookie is not held, no "[METHOD] url" pair reaches
\* the transport twice; and a request whose pair is already in the history
\* is refused by addHistory with the loop-detection error, before the
\* invocation has made any transport call and with cookies, token, history
\* and the transport log as they were.
C3_NoRepeatBeforeAuthentication ==
    /\ [](\A i, j \in 1..Len(sent) :
            (i < j /\ ~sent[i].authenticated /\ ~sent[j].authenticated)
                => SentPair(i) # SentPair(j))
    /\ [][\A t \in Tasks :
            (/\ AddHistory(t)
             /\ ~SessionCookiePresent
             /\ Includes(history, HistoryEntry(Top(t).url, Top(t).request)))
            => /\ thrown'[t] = Some(CircularRedirect(HistoryEntry(Top(t).url, Top(t).request)))
               /\ Top(t).calls = 0
               /\ UNCHANGED <<cookies, token, history, sent, stack>>]_vars

\* C3 witness: an unauthenticated call has just been refused as a repeat.
C3_Witness ==
    /\ IsCircular(thrown[1])
    /\ ~SessionCookiePresent
    /\ Top(1).calls = 0
    /\ Includes(history, HistoryEntry(Top(1).url, Top(1).request))

\* C4: no step taken while the session cookie is held raises the
\* loop-detection error, however often a method+URL pair is repeated.
C4_NoLoopErrorWhenAuthenticated ==
    [][\A t \in Tasks :
          (~IsCircular(thrown[t]) /\ IsCircular(thrown'[t])) => ~SessionCookiePresent]_vars

\* C4 witness: the same pair has reached the transport twice with the
\* session cookie held, and the second call has returned to the caller.
C4_Witness ==
    /\ SessionCookiePresent
    /\ outcome[1].state = "fulfilled"
    /\ \E i, j \in 1..Len(sent) :
          /\ i < j
          /\ sent[i].authenticated /\ sent[j].authenticated
          /\ SentPair(i) = SentPair(j)
          /\ sent[i].depth = 1 /\ sent[j].depth = 1

\* The response shows the login form: a form with the two credential fields.
ShowsLoginForm(response) ==
    /\ IsSome(response.document)
    /\ IsSome(Val(response.document).form)
    /\ \E i, j \in 1..Len(Val(Val(response.document).form).inputs) :
          /\ Val(Val(response.document).form).inputs[i].name = Some("Username")
          /\ Val(Val(response.document).form).inputs[j].name = Some("Password")

\* C2: auto-login as needed.  A response that shows the login form is
\* answered by a submission of the credentials, for a fresh session and for
\* one that holds a session cookie the portal no longer accepts alike: no
\* invocation of fetch returns the login form itself to its caller.
C2_AutoLoginAsNeeded ==
    \A t \in Tasks : \A i \in 1..Depth(t) :
        stack[t][i].pc = "return" => ~ShowsLoginForm(Val(stack[t][i].response))

\* C5: loop detection stops every redirect chain.  Within the nested
\* invocations of one top-level fetch no "[METHOD] url" pair reaches the
\* transport twice, so a portal that keeps answering a pair with a
\* redirect to itself cannot keep the fetch going.
C5_NoRepeatInChain ==
    \A t \in Tasks : \A i, j \in 1..Depth(t) :
        (i < j /\ stack[t][i].calls > 0 /\ stack[t][j].calls > 0)
            => HistoryEntry(stack[t][i].url, stack[t][i].request)
                 # HistoryEntry(stack[t][j].url, stack[t][j].request)

\* C6: when the session cookie is held, handleAuthentication hands back the
\* response it was given, starts no request, and leaves cookies, token and
\* history as they were, whatever the response holds.
C6_AuthenticationGuard ==
    [][\A t \in Tasks :
          (HandleAuthentication(t) /\ SessionCookiePresent)
          => /\ Len(stack'[t]) = Len(stack[t])
             /\ stack'[t][Len(stack'[t])].response = Top(t).response
             /\ UNCHANGED <<cookies, token, history, sent, thrown>>]_vars

\* C6 witness: with the session cookie held and no token, a response with
\* a form that posts to the OIDC endpoint has passed handleAuthentication.
C6_Witness ==
    /\ SessionCookiePresent
    /\ token = None
    /\ Running(1)
    /\ Top(1).pc = "return"
    /\ IsSome(Val(Top(1).response).document)
    /\ IsSome(Val(Val(Top(1).response).document).form)
    /\ Val(Val(Val(Top(1).response).document).form).action = Some(Rel("/oidc/callback"))

\* The form submitted by the invocation below position i of the stack of t.
SubmittedForm(t, i) == Val(Val(stack[t][i-1].response).document).form

\* The value the claim gives the field of a named input.
ExpectedValue(elm) ==
    IF elm.name = Some("Username") THEN options.username
    ELSE IF elm.name = Some("Password") THEN options.password
    ELSE Val(elm.value)

\* C7: the submission of a form that has an action is a POST to that
\* action, with Content-Type application/x-www-form-urlencoded, whose body
\* has exactly one field per named input: Username and Password carry the
\* configured credentials, every other field the value attribute of its input.
C7_LoginSubmission ==
    \A t \in Tasks : \A i \in 2..Depth(t) :
        (/\ stack[t][i].via = "login"
         /\ IsSome(SubmittedForm(t, i))
         /\ IsSome(Val(SubmittedForm(t, i)).action))
        => LET form   == Val(SubmittedForm(t, i))
               named  == {k \in 1..Len(form.inputs) : IsSome(form.inputs[k].name)}
               f      == stack[t][i]
               fields == Val(f.request.body)
           IN  /\ f.url = Resolve(Val(form.action), BUILDINGLINK_BASE_URL)
               /\ f.request.method = Some("POST")
               /\ HasKey(f.request.headers, "Content-Type")
               /\ Get(f.request.headers, "Content-Type") = <<"application/x-www-form-urlencoded">>
               /\ Len(fields) = Cardinality(named)
               /\ \A k \in named :
                     /\ HasKey(fields, Val(form.inputs[k].name))
                     /\ Get(fields, Val(form.inputs[k].name)) = ExpectedValue(form.inputs[k])

\* The token holds the submitted fields: the same names, each with the
\* value the body carries for it.
SameFields(tok, fields) ==
    /\ Len(tok) = Len(fields)
    /\ \A k \in 1..Len(tok) :
          /\ tok[k].name = fields[k].name
          /\ tok[k].value = Some(fields[k].value)

\* C8: when a session without the session cookie submits a form whose
\* action contains "oidc", the token becomes the submitted field set.
C8_OidcTokenCapture ==
    [][\A t \in Tasks :
          (/\ HandleAuthentication(t)
           /\ ~SessionCookiePresent
           /\ Len(stack'[t]) = Len(stack[t]) + 1
           /\ FormAction(Val(Top(t).response)).path \in {"/oidc/callback", "/oidc/token"})
          => /\ IsSome(token')
             /\ SameFields(Val(token'), Val(stack'[t][Len(stack'[t])].request.body))]_vars

\* C8 witness: the OIDC form is being submitted and the token holds its fields.
C8_Witness ==
    /\ Running(1)
    /\ Top(1).via = "login"
    /\ Top(1).url.path = "/oidc/callback"
    /\ IsSome(token)
    /\ HasKey(Val(token), "access_token")
    /\ Get(Val(token), "access_token") = Some("access_token_value")

\* The exception, if any, is the login-rejected error.
IsLoginFailed(e) == IsSome(e) /\ Val(e).message = "Failed to login: "

\* C9: when the submission returns a response with a status other than 200
\* whose html has the validation-summary block with text M,
\* handleAuthentication throws "Failed to login: M" and returns nothing;
\* the error then leaves every awaiting invocation and rejects the fetch of
\* the caller.
C9_LoginRejected ==
    [][\A t \in Tasks :
          /\ (/\ HandleLoginResult(t)
               /\ Val(Top(t).response).status # 200
               /\ IsSome(Val(Top(t).response).html)
               /\ IsSome(Val(Val(Top(t).response).html).errors))
              => /\ thrown'[t] = Some([name |-> "Error", message |-> "Failed to login: ",
                                       entry |-> None,
                                       text |-> Val(Val(Top(t).response).html).errors])
                 /\ stack'[t] = stack[t]
          /\ IsLoginFailed(thrown[t])
              => \/ UNCHANGED <<stack, thrown, outcome>>
                 \/ /\ thrown'[t] = thrown[t]
                    /\ stack'[t] = SubSeq(stack[t], 1, Len(stack[t]) - 1)
                    /\ stack'[t] # <<>>
                 \/ /\ stack'[t] = <<>>
                    /\ outcome'[t].state = "rejected"
                    /\ outcome'[t].response = None
                    /\ outcome'[t].error = thrown[t]]_vars

\* C9 witness: the fetch of the caller is rejected with "Failed to login:
\* Invalid credentials".
C9_Witness ==
    /\ outcome[1].state = "rejected"
    /\ IsLoginFailed(outcome[1].error)
    /\ Val(outcome[1].error).text = Some("Invalid credentials")

\* C10: every transport call is made with redirect "manual" and otherwise
\* the options the request hooks returned; an invocation has made no
\* transport call while it runs its request hooks and exactly one once it
\* is past them, and one whose request hook throws has made none.
C10_OneManualTransportCall ==
    /\ \A i \in 1..Len(sent) :
          /\ sent[i].init.redirect = Some("manual")
          /\ sent[i].init = [sent[i].options EXCEPT !.redirect = Some("manual")]
    /\ \A t \in Tasks : \A i \in 1..Depth(t) :
          LET f == stack[t][i]
          IN  /\ f.pc = "request" => f.calls = 0
              /\ f.pc = "transport" =>
                    f.calls = IF i = Depth(t) /\ thrown[t] = Some(FetchFailed) THEN 1 ELSE 0
              /\ f.pc \notin {"request", "transport"} => f.calls = 1

\* C10 witness: a call whose options asked for redirect "follow" has
\* reached the transport with "manual" and the invocation is returning.
C10_Witness ==
    /\ Running(1)
    /\ Top(1).pc = "return"
    /\ Top(1).calls = 1
    /\ Top(1).request.redirect = Some("follow")
    /\ sent[Len(sent)].options.redirect = Some("follow")
    /\ sent[Len(sent)].init.redirect = Some("manual")

\* C11: fetch runs the request hooks in list order, each on the options the
\* previous one returned: a new invocation starts at the first hook, the
\* hook at position k hands its result to position k+1, the last one hands
\* it to the transport call, and the transport call is made with exactly
\* those options.
C11_RequestHooksInOrder ==
    [][\A t \in Tasks :
          /\ (Running(t) /\ Top(t).pc = "request" /\ stack'[t] # stack[t] /\ thrown'[t] = None)
              => LET f == Top(t)
                     g == stack'[t][Depth(t)]
                     order == <<"addHistory", "addCookies">>
                 IN  /\ Len(stack'[t]) = Depth(t)
                     /\ hooks.requests[f.idx] = order[f.idx]
                     /\ g.request = IF order[f.idx] = "addHistory" THEN f.request
                                    ELSE addCookies(cookies, f.url, f.request)
                     /\ IF f.idx < Len(order)
                        THEN g.pc = "request" /\ g.idx = f.idx + 1
                        ELSE g.pc = "transport"
          /\ Len(stack'[t]) = Depth(t) + 1
              => /\ stack'[t][Depth(t) + 1].pc = "request"
                 /\ stack'[t][Depth(t) + 1].idx = 1
          /\ (Running(t) /\ Top(t).pc = "transport" /\ sent' # sent)
              => /\ sent' = Append(sent, sent'[Len(sent')])
                 /\ sent'[Len(sent')].url = Top(t).url
                 /\ sent'[Len(sent')].options = Top(t).request
                 /\ HasKey(Top(t).request.headers, "cookie") \/ IsApiUrl(Top(t).url)]_vars

\* C11 witness: a transport call whose options carry the header the caller
\* gave and the cookie header of a session that holds cookies.
C11_Witness ==
    \E i \in 1..Len(sent) :
        /\ HasKey(sent[i].options.headers, "Accept")
        /\ HasKey(sent[i].options.headers, "cookie")
        /\ Get(sent[i].options.headers, "cookie") # <<>>

\* The invocation g is the invocation f moved on from the response hook at
\* f.idx: to the next hook of the list, or to its return after the last one.
C12_Advanced(f, g) ==
    IF f.idx < 4 THEN g.pc = "response" /\ g.idx = f.idx + 1 ELSE g.pc = "return"

\* C12: fetch runs the response hooks in list order after the transport
\* call, each on the response the previous one returned (the response of
\* the transport for the first), and returns the response of the last one.
C12_ResponseHooksInOrder ==
    [][\A t \in Tasks : Running(t) =>
          LET f == Top(t)
              g == stack'[t][Depth(t)]
              order == <<"updateCookies", "handleHTMLResponse",
                         "handleRedirects", "handleAuthentication">>
          IN  /\ (f.pc = "transport" /\ thrown'[t] = None /\ stack'[t] # stack[t])
                  => /\ g.pc = "response" /\ g.idx = 1
                     /\ Val(g.response).url = f.url
                     /\ Val(g.response).html = None
              /\ (f.pc = "response" /\ thrown'[t] = None /\ stack'[t] # stack[t])
                  => /\ hooks.responses[f.idx] = order[f.idx]
                     /\ \/ /\ Len(stack'[t]) = Depth(t)
                           /\ C12_Advanced(f, g)
                           /\ g.response = IF order[f.idx] = "handleHTMLResponse"
                                           THEN Some(handleHTMLResponse(Val(f.response)))
                                           ELSE f.response
                        \/ /\ Len(stack'[t]) = Depth(t) + 1
                           /\ f.idx \in {3, 4}
                           /\ g.idx = f.idx
                           /\ g.response = f.response
                           /\ g.pc \in {"awaitRedirect", "awaitScript", "awaitLogin"}
              /\ (f.pc \in {"scriptRedirect", "loginResult"} /\ thrown'[t] = None
                    /\ Len(stack'[t]) = Depth(t))
                  => C12_Advanced(f, g) /\ g.response = f.response
              /\ (f.pc = "return" /\ Depth(t) > 1)
                  => LET l == stack[t][Depth(t) - 1]
                         m == stack'[t][Depth(t) - 1]
                     IN  /\ Len(stack'[t]) = Depth(t) - 1
                         /\ m.response = f.response
                         /\ l.pc = "awaitRedirect" => m.pc = "scriptRedirect" /\ m.idx = l.idx
                         /\ l.pc = "awaitLogin" => m.pc = "loginResult" /\ m.idx = l.idx
                         /\ l.pc = "awaitScript" => C12_Advanced(l, m)
              /\ (f.pc = "return" /\ Depth(t) = 1)
                  => /\ stack'[t] = <<>>
                     /\ outcome'[t].state = "fulfilled"
                     /\ outcome'[t].response = f.response]_vars

\* C12 witness: a call has returned the html response its last hook left,
\* after a follow-up request made by one of the hooks.
C12_Witness ==
    /\ outcome[1].state = "fulfilled"
    /\ IsSome(Val(outcome[1].response).html)
    /\ IsSome(Val(outcome[1].response).document)
    /\ Len(sent) >= 2
    /\ sent[Len(sent)].depth = 2

\* No call has been made on the client yet.
C13_Fresh == \A t \in Tasks : outcome[t].state = "none" /\ stack[t] = <<>>

\* C13: a freshly constructed client has no cookies and no token, is not
\* authenticated, and has the two request hooks [addHistory, addCookies]
\* and the four response hooks [updateCookies, handleHTMLResponse,
\* handleRedirects, handleAuthentication], in that order; the client itself
\* never changes the lists afterwards.
C13_FreshClient ==
    /\ hooks.requests = <<"addHistory", "addCookies">>
    /\ hooks.responses = <<"updateCookies", "handleHTMLResponse",
                           "handleRedirects", "handleAuthentication">>
    /\ C13_Fresh => /\ cookies = <<>>
                    /\ token = None
                    /\ history = <<>>
                    /\ sent = <<>>
                    /\ ~isAuthenticated(cookies)

\* C13 witness: the client right after construction, with its six hooks.
C13_Witness ==
    /\ C13_Fresh
    /\ Len(hooks.requests) = 2
    /\ Len(hooks.responses) = 4
    /\ options.username = "testuser"

\* The cookies of the jar written as name=value pairs separated by "; ".
RECURSIVE C14_Serialized(_)
C14_Serialized(jar) ==
    IF jar = <<>> THEN <<>>
    ELSE IF Len(jar) = 1 THEN jar[1].name \o <<"=">> \o jar[1].value
    ELSE jar[1].name \o <<"=">> \o jar[1].value \o <<";", " ">> \o C14_Serialized(Tail(jar))

\* The entries of a headers object other than the cookie entry, in order.
C14_OtherHeaders(headers) == SelectSeq(headers, LAMBDA h : h.name # "cookie")

\* The url names one of the two API hosts.
C14_ApiHost(u) ==
    u.origin \in {"https://api.buildinglink.com", "https://users.us1.buildinglink.com"}

\* C14 as stated: addCookies puts the cookie header with all held cookies
\* on every outgoing request.
C14_CookieHeaderOnEveryRequest ==
    [][\A t \in Tasks : AddCookies(t) =>
          /\ HasKey(stack'[t][Depth(t)].request.headers, "cookie")
          /\ Get(stack'[t][Depth(t)].request.headers, "cookie") = C14_Serialized(cookies)]_vars

\* C14, amended: for a request to a url that names neither API host,
\* addCookies sets the header key cookie to all held cookies written as
\* name=value joined by "; ", overwriting the previous value of that key and
\* leaving every other header and option of the request as it was; a request
\* to an API host is returned as it is, without the cookies.
C14_CookieHeaderExceptApi ==
    [][\A t \in Tasks : AddCookies(t) =>
          LET f == Top(t)
              g == stack'[t][Depth(t)]
          IN  IF C14_ApiHost(f.url)
              THEN g.request = f.request
              ELSE /\ HasKey(g.request.headers, "cookie")
                   /\ Get(g.request.headers, "cookie") = C14_Serialized(cookies)
                   /\ C14_OtherHeaders(g.request.headers) = C14_OtherHeaders(f.request.headers)
                   /\ Len(g.request.headers) = Len(C14_OtherHeaders(f.request.headers)) + 1
                   /\ g.request = [f.request EXCEPT !.headers = g.request.headers]]_vars

\* C14 witness: with two cookies held, a request that came with a cookie
\* header of its own was sent with the header of the jar and its Accept
\* header, and a request to the API host was sent without a cookie header.
C14_Witness ==
    /\ Len(cookies) >= 2
    /\ \E i \in 1..Len(sent) :
          /\ ~C14_ApiHost(sent[i].url)
          /\ HasKey(sent[i].options.headers, "Accept")
          /\ Len(Get(sent[i].options.headers, "cookie")) > 3
          /\ Get(sent[i].options.headers, "cookie") # <<"stale", "=", "1">>
    /\ \E i \in 1..Len(sent) :
          /\ C14_ApiHost(sent[i].url)
          /\ sent[i].authenticated
          /\ ~HasKey(sent[i].options.headers, "cookie")

\* The position of the first chunk c of s; s has one.
C15_First(s, c) == CHOOSE i \in 1..Len(s) : s[i] = c /\ \A j \in 1..(i-1) : s[j] # c

\* The part of a Set-Cookie entry before its first ";".
C15_Pair(entry) ==
    IF \E i \in 1..Len(entry) : entry[i] = ";"
    THEN SubSeq(entry, 1, C15_First(entry, ";") - 1)
    ELSE entry

\* The entry has a name and a value the decoder accepts.
C15_WellFormed(entry) ==
    /\ \E i \in 1..Len(C15_Pair(entry)) : C15_Pair(entry)[i] = "="
    /\ \A i \in 1..Len(entry) : entry[i] # "%"

\* The jar the claim describes: per entry, the trimmed text before the first
\* "=" of the pair names the cookie and all the text after that "=",
\* percent-decoded, is its value; a later entry replaces an earlier value.
RECURSIVE C15_Stored(_, _)
C15_Stored(jar, entries) ==
    IF entries = <<>> THEN jar
    ELSE LET pair == C15_Pair(Head(entries))
             k    == C15_First(pair, "=")
         IN  C15_Stored(SetEntry(jar, Trim(SubSeq(pair, 1, k - 1)),
                                 DecodeURIComponent(Trim(SubSeq(pair, k + 1, Len(pair))))),
                        Tail(entries))

\* C15: updateCookies stores, for every Set-Cookie entry, the text before
\* the first ";" split at its first "=": a value that contains "=" is kept
\* whole, a later entry of the same name overwrites, other cookies stay.
C15_ValueKeptWhole ==
    [][\A t \in Tasks :
          (/\ UpdateCookies(t)
           /\ \A i \in 1..Len(Val(Top(t).response).headers.setCookie) :
                 C15_WellFormed(Val(Top(t).response).headers.setCookie[i]))
          => cookies' = C15_Stored(cookies, Val(Top(t).response).headers.setCookie)]_vars

\* The response is an HTTP redirect to a location that starts with "/".
C16_RelativeRedirect(response) ==
    /\ response.status \in {301, 302, 307}
    /\ IsSome(response.headers.location)
    /\ Val(response.headers.location).origin = ""
    /\ Val(response.headers.location).rooted

\* The query of the location with " internal_resident_app_apis" added to
\* the value of its scope parameter, if it has one that is not empty.
C16_ScopeExtended(query) ==
    [i \in 1..Len(query) |->
        IF query[i].name = "scope" /\ query[i].value # ""
        THEN [name |-> "scope", value |-> query[i].value \o " internal_resident_app_apis"]
        ELSE query[i]]

\* handleRedirects, on a redirect to a location that starts with "/", makes
\* one follow-up fetch to the origin of the response's url with the path of
\* the location and the query q, and returns what that fetch returns.
C16_FollowsWith(t, q) ==
    /\ (HandleRedirects(t) /\ C16_RelativeRedirect(Val(Top(t).response)))
        => LET response == Val(Top(t).response)
               location == Val(response.headers.location)
               g == stack'[t][Depth(t) + 1]
           IN  /\ Len(stack'[t]) = Depth(t) + 1
               /\ stack'[t][Depth(t)].pc = "awaitRedirect"
               /\ g.url.origin = response.url.origin
               /\ g.url.path = location.path
               /\ g.url.query = q
               /\ g.request = EmptyRequest
    /\ HandleScriptRedirect(t)
        => /\ Len(stack'[t]) = Depth(t)
           /\ stack'[t][Depth(t)].response = Top(t).response
           /\ stack'[t][Depth(t)].pc # "scriptRedirect"

\* C16 as stated: one follow-up fetch to the location resolved against the
\* response's url, its path and query unmodified, whose result is returned.
C16_LocationUnmodified ==
    [][\A t \in Tasks : Running(t) =>
          C16_FollowsWith(t, Val(Val(Top(t).response).headers.location).query)]_vars

\* C16, amended: the follow-up goes to the location resolved against the
\* response's url with its path unmodified and its query unmodified except
\* for a scope parameter, whose value gets " internal_resident_app_apis"
\* appended; its result is returned in place of the original response.
C16_LocationWithScopeExtended ==
    [][\A t \in Tasks : Running(t) =>
          C16_FollowsWith(t, C16_ScopeExtended(
                                Val(Val(Top(t).response).headers.location).query))]_vars

\* C16 witness: a response from the API host redirected to a location with
\* a scope parameter, and the follow-up request on that host has returned.
C16_Witness ==
    /\ Running(1)
    /\ Depth(1) = 1
    /\ Top(1).pc = "scriptRedirect"
    /\ \E i \in 1..Len(sent) :
          /\ sent[i].depth = 2
          /\ sent[i].url.origin = "https://api.buildinglink.com"
          /\ sent[i].url.path = "/connect/authorize"
          /\ sent[i].url.query = <<[name |-> "scope", value |-> "openid internal_resident_app_apis"]>>

\* The html of the response holds window.top.location.href="U" with U an
\* absolute URL.
C17_HasScript(response) ==
    /\ IsSome(response.html)
    /\ IsSome(Val(response.html).script)
    /\ Val(Val(response.html).script).gap = <<"=">>
    /\ Val(Val(response.html).script).url.origin \in
          {"https://www.buildinglink.com", "https://api.buildinglink.com"}

\* handleRedirects, given a response with a status of the set statuses whose
\* html holds the script assignment of U, makes one follow-up fetch to U
\* and returns its result; without html no script follow-up is made.
C17_Follows(t, statuses) ==
    /\ (/\ HandleRedirects(t)
        /\ Val(Top(t).response).status \in statuses
        /\ C17_HasScript(Val(Top(t).response)))
        => LET g == stack'[t][Depth(t) + 1]
           IN  /\ Len(stack'[t]) = Depth(t) + 1
               /\ stack'[t][Depth(t)].pc = "awaitScript"
               /\ g.via = "script"
               /\ g.url = Val(Val(Val(Top(t).response).html).script).url
               /\ g.request = EmptyRequest
    /\ (Top(t).pc = "return" /\ Depth(t) > 1 /\ stack[t][Depth(t) - 1].pc = "awaitScript")
        => /\ stack'[t][Depth(t) - 1].response = Top(t).response
           /\ stack'[t][Depth(t) - 1].pc \in {"response", "return"}
    /\ (Len(stack'[t]) = Depth(t) + 1 /\ stack'[t][Depth(t) + 1].via = "script")
        => IsSome(Val(Top(t).response).html)

\* The HTTP statuses of the portal's answers.
C17_Statuses == {200, 301, 302, 307, 400}

\* C17 as stated: for a response of any HTTP status whose html holds
\* window.top.location.href="U", handleRedirects makes exactly one
\* follow-up fetch to U and returns its result; a response without html
\* never triggers a script redirect.
C17_ScriptFollowedForAnyStatus ==
    [][\A t \in Tasks : Running(t) => C17_Follows(t, C17_Statuses)]_vars

\* C17, amended: the same for a response whose status is not 301, 302 or
\* 307; for those statuses the Location is followed first and the script
\* of the redirecting response itself is not looked at.
C17_ScriptFollowedUnlessHttpRedirect ==
    [][\A t \in Tasks : Running(t) =>
          /\ C17_Follows(t, C17_Statuses \ {301, 302, 307})
          /\ (/\ HandleRedirects(t)
              /\ Val(Top(t).response).status \in {301, 302, 307}
              /\ Len(stack'[t]) = Depth(t) + 1)
              => /\ stack'[t][Depth(t) + 1].via = "redirect"
                 /\ stack'[t][Depth(t) + 1].url.path =
                       Val(Val(Top(t).response).headers.location).path]_vars

\* C17 witness: the script redirect of a page answered with status 200 is
\* being followed to its URL.
C17_Witness ==
    /\ Running(1)
    /\ Depth(1) = 2
    /\ stack[1][1].pc = "awaitScript"
    /\ Val(stack[1][1].response).status = 200
    /\ C17_HasScript(Val(stack[1][1].response))
    /\ Top(1).via = "script"
    /\ Top(1).url = HomeUrl
    /\ Top(1).calls = 1

\* C18: fetch resolves a relative location against the base origin the
\* client was configured with (the baseUrl given to the constructor, the
\* portal origin when none was given) and requests an absolute one as is.
C18_ResolvedAgainstConfiguredBase ==
    [][\A t \in Tasks : \A in \in CallerInputs :
          (FetchCall(t) /\ stack'[t][1].request = in.options)
          => stack'[t][1].url =
                IF in.url.origin # "" THEN in.url
                ELSE [in.url EXCEPT !.origin = options.baseUrl]]_vars

\* The token has an access token.
C19_HasAccessToken ==
    /\ token # <<>>
    /\ \E i \in 1..Len(token[1]) :
          token[1][i].name = "access_token" /\ token[1][i].value # <<>>

\* The access token of the token.
C19_AccessToken ==
    token[1][CHOOSE i \in 1..Len(token[1]) : token[1][i].name = "access_token"].value[1]

\* The headers without the two headers api adds.
C19_CallerHeaders(headers) ==
    SelectSeq(headers, LAMBDA h : h.name \notin {"Authorization", "ocp-apim-subscription-key"})

C20_IsHtml(contentType) ==
    contentType # <<>> /\ contentType[1] \in {"text/html; charset=utf-8", "TEXT/HTML"}

\* C20: handleHTMLResponse returns the response as it is, its body unread,
\* when the content type does not include text/html in any case and the
\* response has no html yet; otherwise it sets html to the text of the body
\* and document to its parse.  After the step html is present if and only
\* if document is.
C20_HtmlMaterialization ==
    [][\A t \in Tasks : HandleHTMLResponse(t) =>
          LET r == Val(Top(t).response)
              s == Val(stack'[t][Depth(t)].response)
          IN  /\ IF ~C20_IsHtml(r.headers.contentType) /\ r.html = <<>>
                 THEN s = r /\ ~s.bodyUsed
                 ELSE /\ s.html = <<r.body>>
                      /\ s.document = <<[form |-> r.body.form]>>
                      /\ s.bodyUsed
                      /\ s = [r EXCEPT !.html = s.html, !.document = s.document,
                                       !.bodyUsed = TRUE]
              /\ (s.html # <<>>) <=> (s.document # <<>>)]_vars

\* C20 witness: a response sent as TEXT/HTML has passed the hook with its
\* html and document set and the form of the page in the document.
C20_Witness ==
    /\ Running(1)
    /\ Top(1).pc = "response"
    /\ Top(1).idx = 3
    /\ Val(Top(1).response).headers.contentType = <<"TEXT/HTML">>
    /\ Val(Top(1).response).bodyUsed
    /\ Val(Top(1).response).html = <<OidcBody>>
    /\ Val(Val(Top(1).response).document).form # <<>>

\* C21 as stated: whenever the session cookie is held the history is empty,
\* in every reachable state, the state in which fetch returns included.
C21_HistoryEmptyWhenAuthenticated ==
    SessionCookiePresent => history = <<>>

\* C21, amended: the history is emptied by addHistory, at the start of each
\* invocation of fetch made while the session cookie is held; the step that
\* captures the cookie, and every step other than addHistory, leaves the
\* history as it is, so the entries recorded before the capture stay until
\* the next request.
C21_HistoryResetByNextRequest ==
    [][/\ \A t \in Tasks :
             /\ (AddHistory(t) /\ SessionCookiePresent) => history' = <<>>
             /\ UpdateCookies(t) => history' = history
       /\ history' # history
           => /\ \E t \in Tasks : Running(t) /\ Top(t).pc = "request" /\ Top(t).idx = 1
              /\ \/ history' = <<>>
                 \/ ~SessionCookiePresent /\ Len(history') = Len(history) + 1]_vars

\* C21 witness: the call that captured the session cookie has returned with
\* the history still holding its entries, and the next call has just passed
\* addHistory, which emptied it.
C21_Witness ==
    /\ SessionCookiePresent
    /\ history = <<>>
    /\ Len(sent) >= 1
    /\ ~sent[Len(sent)].authenticated
    /\ Running(1)
    /\ Depth(1) = 1
    /\ Top(1).pc = "request"
    /\ Top(1).idx = 2

\* The invocation f is the submission of a form to the OIDC endpoint.
C22_OidcSubmission(f) ==
    /\ f.via = "login"
    /\ f.url.path \in {"/oidc/callback", "/oidc/token"}

\* C22: the token is stored before the submission is issued.  When the
\* POST to the OIDC target reaches the transport the token holds the fields
\* of its body, and the steps in which the submission fails (the loop
\* detected, the transport failing, a status other than 200) and in which
\* the failure reaches the caller leave the token as it is.
C22_TokenSnapshotBeforeSubmission ==
    [][\A t \in Tasks :
          /\ (Running(t) /\ Top(t).pc = "transport" /\ sent' # sent /\ C22_OidcSubmission(Top(t)))
              => /\ token # <<>>
                 /\ SameFields(token[1], Top(t).request.body[1])
                 /\ token' = token
          /\ (thrown'[t] # <<>> \/ thrown[t] # <<>>) => token' = token
          /\ (Running(t) /\ Top(t).pc = "loginResult") => token' = token]_vars

\* C22 witness: the submission to the OIDC endpoint was sent and failed,
\* the failure has reached the caller, and the token holds the fields.
C22_Witness ==
    /\ outcome[1].state = "rejected"
    /\ \E i \in 1..Len(sent) :
          /\ sent[i].url.path = "/oidc/callback"
          /\ sent[i].options.method = <<"POST">>
          /\ token # <<>>
          /\ SameFields(token[1], sent[i].options.body[1])

\* The path of the target of the form of the response contains "oidc".
C23_OidcPath(response) ==
    LET form == response.document[1].form
    IN  IF form # <<>> /\ form[1].action # <<>>
        THEN form[1].action[1].path \in {"/oidc/callback", "/oidc/token"}
        ELSE response.url.path \in {"/oidc/callback", "/oidc/token"}

\* C23: the token changes only when a session without the session cookie
\* submits a form to a target whose path contains "oidc".  A submission to
\* any other target, one with "oidc" in its query only included, leaves the
\* token alone, so the token never holds the Username and Password fields of
\* a login form; no step changes the token while the session cookie is held.
C23_TokenOnlyFromOidcPath ==
    [][/\ token' # token
           => \E t \in Tasks :
                 /\ HandleAuthentication(t)
                 /\ ~SessionCookiePresent
                 /\ Len(stack'[t]) = Depth(t) + 1
                 /\ C23_OidcPath(Val(Top(t).response))
       /\ token' # <<>> => \A i \in 1..Len(token'[1]) : token'[1][i].name # "Password"]_vars

\* C24: every login submission whose final response has a status other
\* than 200 ends in the login-rejected error "Failed to login: ...",
\* whether or not the response has html; its message part is the text of
\* the validation-summary block, and undefined when there is no block.
C24_NonOkSubmissionIsLoginFailure ==
    [][\A t \in Tasks :
          (HandleLoginResult(t) /\ Val(Top(t).response).status # 200)
          => LET r == Val(Top(t).response)
             IN  /\ thrown'[t] # <<>>
                 /\ thrown'[t][1].name = "Error"
                 /\ thrown'[t][1].message = "Failed to login: "
                 /\ thrown'[t][1].text = IF r.html # <<>> THEN r.html[1].errors ELSE <<>>]_vars

\* C25: for a session without the session cookie handleAuthentication
\* issues one POST for any response and does not fail before it: to the
\* action of the first form, or to the url of the response when the form
\* has no action or there is no form or no document; the payload is empty
\* when there is no form.
C25_AlwaysSubmits ==
    [][\A t \in Tasks :
          (HandleAuthentication(t) /\ ~SessionCookiePresent)
          => LET r == Val(Top(t).response)
                 form == IF r.document # <<>> THEN r.document[1].form ELSE <<>>
                 g == stack'[t][Depth(t) + 1]
             IN  /\ thrown'[t] = <<>>
                 /\ Len(stack'[t]) = Depth(t) + 1
                 /\ g.request.method = <<"POST">>
                 /\ g.url = IF form # <<>> /\ form[1].action # <<>>
                            THEN Resolve(form[1].action[1], BUILDINGLINK_BASE_URL)
                            ELSE r.url
                 /\ form = <<>> => g.request.body = << <<>> >>]_vars

\* The name of the cookie of a Set-Cookie entry.
C26_EntryName(entry) == Trim(Split(Split(entry, ";")[1], "=")[1])

\* The names of the pairs of a cookie header.
C26_HeaderNames(headers) ==
    IF \E i \in 1..Len(headers) : headers[i].name = "cookie"
    THEN LET header == headers[CHOOSE i \in 1..Len(headers) : headers[i].name = "cookie"].value
             pairs  == Split(header, ";")
         IN  {Trim(Split(pairs[i], "=")[1]) : i \in 1..Len(pairs)}
    ELSE {}

\* The follow-up request on top of the stack of t, about to be sent, has
\* in its cookie header the cookies set by the response being processed
\* below it and every cookie the session holds.
C26_CarriesCookies(t) ==
    LET R == Val(stack[t][Depth(t) - 1].response)
        names == C26_HeaderNames(Top(t).request.headers)
    IN  /\ \A i \in 1..Len(R.headers.setCookie) : C26_EntryName(R.headers.setCookie[i]) \in names
        /\ \A i \in 1..Len(cookies) : cookies[i].name \in names

\* A follow-up request of the call of t is being sent in this step.
C26_FollowUpSent(t) ==
    /\ Running(t)
    /\ Depth(t) > 1
    /\ Top(t).pc = "transport"
    /\ sent' # sent

\* C26 as stated: every follow-up request issued by handleRedirects or
\* handleAuthentication while processing a response carries, in its cookie
\* header, every cookie set by that response and by the earlier ones.
C26_FollowUpCarriesCookies ==
    [][\A t \in Tasks : C26_FollowUpSent(t) => C26_CarriesCookies(t)]_vars

\* C26, amended: the same for every follow-up request to a url that names
\* neither API host; a follow-up request to an API host has no cookie header.
C26_FollowUpCarriesCookiesExceptApi ==
    [][\A t \in Tasks : C26_FollowUpSent(t) =>
          IF C14_ApiHost(Top(t).url)
          THEN C26_HeaderNames(Top(t).request.headers) = {}
          ELSE C26_CarriesCookies(t)]_vars

\* C26 witness: the follow-up of a redirect that set two cookies was sent
\* with both in its cookie header.
C26_Witness ==
    /\ Depth(1) = 2
    /\ Top(1).via = "redirect"
    /\ Top(1).calls = 1
    /\ Len(Val(stack[1][1].response).headers.setCookie) = 2
    /\ {<<"ASP.NET_SessionId">>, <<"csrf">>} \subseteq C26_HeaderNames(Top(1).request.headers)

\* C27: updateCookies has no error conditions.  For every list of
\* Set-Cookie entries it completes without failing, and for the empty list
\* it leaves the cookie mapping as it is.
C27_UpdateCookiesNeverFails ==
    [][\A t \in Tasks : UpdateCookies(t) =>
          /\ thrown'[t] = <<>>
          /\ Len(stack'[t]) = Depth(t)
          /\ stack'[t][Depth(t)].idx = Top(t).idx + 1
          /\ Val(Top(t).response).headers.setCookie = <<>> => cookies' = cookies]_vars

\* One pair of a cookie header read back: the text before its first "=" is
\* the name, the text after it, percent-decoded, the value.
C28_ParsePair(pair) ==
    IF \E i \in 1..Len(pair) : pair[i] = "="
    THEN LET k == CHOOSE i \in 1..Len(pair) : pair[i] = "=" /\ \A j \in 1..(i-1) : pair[j] # "="
         IN  [name |-> SubSeq(pair, 1, k - 1),
              value |-> DecodeURIComponent(SubSeq(pair, k + 1, Len(pair)))]
    ELSE [name |-> pair, value |-> <<>>]

\* A cookie header read back into its name/value pairs.
C28_ParseHeader(header) ==
    IF header = <<>> THEN <<>>
    ELSE [i \in 1..Len(Split(header, ";")) |-> C28_ParsePair(Trim(Split(header, ";")[i]))]

\* C28: the cookie header addCookies writes, read back into name/value
\* pairs, gives exactly the mapping updateCookies has stored.
C28_CookieRoundTrip ==
    [][\A t \in Tasks :
          (AddCookies(t) /\ ~C14_ApiHost(Top(t).url))
          => C28_ParseHeader(Get(stack'[t][Depth(t)].request.headers, "cookie")) = cookies]_vars

\* The response handleRedirects is about to process has a redirect status
\* and no location header.
C29_MissingLocation(t) ==
    /\ AtResponseHook(t, "handleRedirects")
    /\ Val(Top(t).response).status \in {301, 302, 307}
    /\ Val(Top(t).response).headers.location = <<>>

\* C29: on a response with status 301, 302 or 307 and no location header
\* handleRedirects throws without issuing a request; while the exception
\* is pending no request is sent and no invocation is started, each
\* invocation of fetch on the stack ends in its turn, and the top-level
\* fetch is rejected with the exception and returns no response.
C29_MissingLocationIsFatal ==
    [][\A t \in Tasks :
          /\ (HandleRedirects(t) /\ C29_MissingLocation(t))
              => /\ thrown'[t] = <<TypeError("location is null")>>
                 /\ stack' = stack
                 /\ sent' = sent
                 /\ outcome' = outcome
          /\ (thrown[t] = <<TypeError("location is null")>> /\ stack[t] # <<>>)
              => /\ sent' = sent
                 /\ stack'[t] = SubSeq(stack[t], 1, Depth(t) - 1)
                 /\ IF Depth(t) = 1
                    THEN outcome'[t] = [state |-> "rejected", response |-> <<>>,
                                        error |-> thrown[t]]
                    ELSE outcome' = outcome /\ thrown' = thrown]_vars

\* C29 witness: a fetch whose redirect, followed once, was answered by a
\* redirect status without location has been rejected with the exception
\* of handleRedirects, after two transport calls.
C29_Witness ==
    /\ stack[1] = <<>>
    /\ outcome[1] = [state |-> "rejected", response |-> <<>>,
                     error |-> <<TypeError("location is null")>>]
    /\ Len(sent) = 2
    /\ sent[2].depth = 2

\* The html of the response holds the assignment of an absolute URL to
\* window.top.location.href, written without spaces or with one space on
\* each side of the equals sign.
C30_HasAssignment(response) ==
    /\ IsSome(response.html)
    /\ IsSome(Val(response.html).script)
    /\ Val(Val(response.html).script).gap \in {<<"=">>, <<" ", "=", " ">>}
    /\ Val(Val(response.html).script).url.origin # ""

\* C30: handleRedirects, on a response that is no redirect and whose html
\* holds the script assignment of U, with or without a space on each side
\* of the equals sign, starts one follow-up fetch to U.
C30_SpacedAssignmentFollowed ==
    [][\A t \in Tasks :
          (/\ HandleRedirects(t)
           /\ Val(Top(t).response).status \notin {301, 302, 307}
           /\ C30_HasAssignment(Val(Top(t).response)))
          => /\ Len(stack'[t]) = Depth(t) + 1
             /\ stack'[t][Depth(t) + 1].via = "script"
             /\ stack'[t][Depth(t) + 1].url = Val(Val(Top(t).response).html).script[1].url]_vars

\* The html of the response matches the script pattern.
C31_Matches(response) ==
    Truthy(response.html) /\ IsSome(ScriptRedirect(Val(response.html)))

\* C31: handleRedirects makes the HTTP check first and the script check
\* second.  On a redirect status it starts the fetch of the location and
\* nothing else; when that fetch returns, the script check is made on its
\* result.  Without a redirect status the script check is made on the
\* original response.  The script follow-up is the last thing the hook
\* does, so one invocation starts at most two fetches; a response with
\* neither a redirect status nor the pattern is passed on as it is and no
\* fetch is started.
C31_BothChecksHttpFirst ==
    [][\A t \in Tasks :
          /\ (HandleRedirects(t) /\ Val(Top(t).response).status \in {301, 302, 307}
                /\ Val(Top(t).response).headers.location # <<>>)
              => /\ Len(stack'[t]) = Depth(t) + 1
                 /\ stack'[t][Depth(t)].pc = "awaitRedirect"
                 /\ stack'[t][Depth(t) + 1].via = "redirect"
          /\ (FetchReturn(t) /\ Depth(t) > 1 /\ stack[t][Depth(t) - 1].pc = "awaitRedirect")
              => /\ stack'[t][Depth(t) - 1].pc = "scriptRedirect"
                 /\ stack'[t][Depth(t) - 1].response = Top(t).response
          /\ ((HandleRedirects(t) /\ Val(Top(t).response).status \notin {301, 302, 307})
                \/ HandleScriptRedirect(t))
              => IF C31_Matches(Val(Top(t).response))
                 THEN /\ Len(stack'[t]) = Depth(t) + 1
                      /\ stack'[t][Depth(t)].pc = "awaitScript"
                      /\ stack'[t][Depth(t) + 1].via = "script"
                      /\ stack'[t][Depth(t) + 1].url
                            = Val(ScriptRedirect(Val(Val(Top(t).response).html)))
                 ELSE /\ Len(stack'[t]) = Depth(t)
                      /\ stack'[t][Depth(t)].response = Top(t).response
                      /\ stack'[t][Depth(t)].pc = "response"
                      /\ stack'[t][Depth(t)].idx = Top(t).idx + 1
                      /\ sent' = sent
          /\ (FetchReturn(t) /\ Depth(t) > 1 /\ stack[t][Depth(t) - 1].pc = "awaitScript")
              => /\ stack'[t][Depth(t) - 1].pc = "response"
                 /\ stack'[t][Depth(t) - 1].idx = stack[t][Depth(t) - 1].idx + 1
                 /\ stack'[t][Depth(t) - 1].response = Top(t).response
          /\ (Len(stack'[t]) = Depth(t) + 1 /\ Depth(t) > 0
                /\ stack'[t][Depth(t) + 1].via \in {"redirect", "script"})
              => /\ AtResponseHook(t, "handleRedirects") \/ Top(t).pc = "scriptRedirect"
                 /\ stack'[t][Depth(t) + 1].via = "redirect" => Top(t).pc = "response"]_vars

\* C31 witness: the fetch of a redirect's location has returned a page
\* without the pattern to handleRedirects, which makes the script check on
\* it next.
C31_Witness ==
    /\ Running(1)
    /\ Depth(1) = 1
    /\ Top(1).pc = "scriptRedirect"
    /\ Len(sent) = 2
    /\ sent[2].depth = 2
    /\ Val(Top(1).response).status = 200
    /\ ~C31_Matches(Val(Top(1).response))

\* The exception is one of the fatal conditions: loop detected, missing
\* location, login rejected, transport failure.
C32_Fatal(e) ==
    \/ e.message \in {"Circular redirect detected: ", "Failed to login: "}
    \/ e = TypeError("location is null")
    \/ e = FetchFailed

\* C32: a fatal condition raised in an invocation of fetch at any depth is
\* not caught.  While it is pending no transport call is made and no
\* invocation is started or resumed: the invocations on the stack end one
\* by one with the exception unchanged, and the top-level fetch is
\* rejected with that exception and returns no response.
C32_FatalPropagates ==
    [][\A t \in Tasks :
          (stack[t] # <<>> /\ thrown[t] # <<>> /\ C32_Fatal(thrown[t][1]))
          => /\ sent' = sent
             /\ stack'[t] = SubSeq(stack[t], 1, Depth(t) - 1)
             /\ <<history, cookies, token>>' = <<history, cookies, token>>
             /\ IF Depth(t) = 1
                THEN outcome'[t] = [state |-> "rejected", response |-> <<>>,
                                    error |-> thrown[t]]
                ELSE outcome' = outcome /\ thrown' = thrown]_vars

\* C32 witness: the login submitted by the fetch of a redirect's location
\* was refused; the exception raised at depth 2 has rejected the top-level
\* fetch.
C32_Witness ==
    /\ stack[1] = <<>>
    /\ outcome[1].state = "rejected"
    /\ outcome[1].response = <<>>
    /\ outcome[1].error # <<>>
    /\ outcome[1].error[1].message = "Failed to login: "
    /\ Len(sent) = 3
    /\ sent[2].depth = 2
    /\ sent[3].depth = 3

\* The i-th transport call is a form submission.
C33_IsSubmission(i) == sent[i].options.method = <<"POST">>

\* The transport calls i and j belong to the same top-level fetch.
C33_SameFetch(i, j) == \A k \in (i + 1)..j : sent[k].depth > 1

\* No two submissions of one top-level fetch went to the same target.
C33_NoTargetTwice ==
    \A i, j \in 1..Len(sent) :
        (i < j /\ C33_IsSubmission(i) /\ C33_IsSubmission(j) /\ C33_SameFetch(i, j))
        => sent[i].url # sent[j].url

\* C33: an invocation of handleAuthentication starts at most one form
\* submission, and none once the submission has returned; within one
\* top-level fetch no form target is submitted twice: the second submission
\* to a target fails in addHistory before it reaches the transport.
C33_NothingRetried ==
    [][/\ C33_NoTargetTwice'
       /\ \A t \in Tasks :
             /\ HandleAuthentication(t)
                 => /\ Len(stack'[t]) <= Depth(t) + 1
                    /\ sent' = sent
                    /\ Len(stack'[t]) = Depth(t) + 1
                        => /\ stack'[t][Depth(t)].pc = "awaitLogin"
                           /\ stack'[t][Depth(t) + 1].via = "login"
             /\ HandleLoginResult(t)
                 => /\ Len(stack'[t]) = Depth(t)
                    /\ stack'[t][Depth(t)].pc # "awaitLogin"
                    /\ sent' = sent
             /\ (AddHistory(t) /\ Top(t).via = "login"
                   /\ Includes(history, HistoryEntry(Top(t).url, Top(t).request)))
                 => /\ thrown'[t] = <<CircularRedirect(HistoryEntry(Top(t).url, Top(t).request))>>
                    /\ sent' = sent]_vars

\* C33 witness: the answer to the submission showed the login form again;
\* the second submission to the same target was stopped by addHistory and
\* the fetch has failed, with one submission sent.
C33_Witness ==
    /\ stack[1] = <<>>
    /\ outcome[1].state = "rejected"
    /\ outcome[1].error # <<>>
    /\ outcome[1].error[1].message = "Circular redirect detected: "
    /\ outcome[1].error[1].entry # <<>>
    /\ outcome[1].error[1].entry[1].method = "POST"
    /\ Len(sent) = 2
    /\ C33_IsSubmission(2)
    /\ sent[2].url = outcome[1].error[1].entry[1].url

\* The other top-level caller.
C34_Other(t) == CHOOSE o \in Tasks : o # t

\* The exception is the loop-detection error.
C34_Circular(e) == e # <<>> /\ e[1].message = "Circular redirect detected: "

\* The call of caller t has sent a request with this history entry.
C34_Requested(t, entry) ==
    \E i \in 1..Len(sent) :
        sent[i].task = t /\ HistoryEntry(sent[i].url, sent[i].options) = entry

\* C34: cookies, token and history are shared by the top-level calls of a
\* client and not synchronized.  A call that succeeds leaves the session
\* cookie in the mapping, the cookie is never removed, and with the cookie
\* held no call fails with the loop-detection error; so a call fails with
\* that error on an entry it has not requested itself only while the call
\* that requested it is in flight, or after that call has failed: never
\* after a call that has succeeded, and never on a client no other call
\* has used.
C34_SharedHistory ==
    [][/\ SessionCookiePresent => SessionCookiePresent'
       /\ \A t \in Tasks :
             /\ (FetchReturn(t) /\ Depth(t) = 1) => SessionCookiePresent
             /\ (SessionCookiePresent /\ thrown[t] = <<>>) => ~C34_Circular(thrown'[t])
             /\ (AddHistory(t) /\ C34_Circular(thrown'[t])
                   /\ ~C34_Requested(t, thrown'[t][1].entry[1]))
                 => /\ C34_Requested(C34_Other(t), thrown'[t][1].entry[1])
                       \/ (stack[C34_Other(t)] # <<>>
                             /\ HistoryEntry(stack[C34_Other(t)][Len(stack[C34_Other(t)])].url,
                                             stack[C34_Other(t)][Len(stack[C34_Other(t)])].request)
                                  = thrown'[t][1].entry[1])
                    /\ stack[C34_Other(t)] # <<>> \/ outcome[C34_Other(t)].state = "rejected"]_vars

\* C34 witness: two calls were in flight on an unauthenticated client; the
\* second was led by a script redirect to the URL the first had requested
\* and has failed with the loop-detection error, and the first has
\* succeeded.
C34_Witness ==
    /\ stack[1] = <<>> /\ stack[2] = <<>>
    /\ outcome[1].state = "fulfilled"
    /\ outcome[2].state = "rejected"
    /\ C34_Circular(outcome[2].error)
    /\ C34_Requested(1, outcome[2].error[1].entry[1])
    /\ ~C34_Requested(2, outcome[2].error[1].entry[1])
    /\ \E i \in 1..Len(sent) : sent[i].task = 2

\* The top invocation of t holds a response.
C35_Holds(stk) == stk # <<>> /\ stk[Len(stk)].response # <<>>

\* The response as the transport returned it: without the html and the
\* document handleHTMLResponse adds.
C35_Raw(stk) ==
    [stk[Len(stk)].response[1] EXCEPT !.html = <<>>, !.document = <<>>, !.bodyUsed = FALSE]

\* C35 as stated: once a form has been submitted in a top-level fetch, the
\* URL the caller asked for is not requested again in that fetch.
C35_OriginalNotRequestedAgain ==
    \A i, k, j \in 1..Len(sent) :
        (/\ i < k /\ k < j
         /\ sent[i].depth = 1
         /\ C33_SameFetch(i, j)
         /\ C33_IsSubmission(k))
        => sent[j].url # sent[i].url

\* C35, amended: the response a fetch returns is the response of the last
\* transport call made for it.  A response is set by the transport call
\* of its invocation; the hooks and the returns of awaited invocations
\* pass it on, html and document apart, so what the top invocation holds
\* is the response of the last transport call, and that is what the caller
\* gets.  After the first invocation every invocation is started by
\* handleRedirects or handleAuthentication for the target the response in
\* hand names: the client requests the caller's URL again only when the
\* portal's redirects lead back to it.
C35_LastResponseReturned ==
    [][\A t \in Tasks :
          /\ (thrown[t] = <<>> /\ thrown'[t] = <<>>
                /\ C35_Holds(stack[t]) /\ C35_Holds(stack'[t]))
              => /\ C35_Raw(stack'[t]) = C35_Raw(stack[t])
                 /\ sent' = sent
          /\ (thrown[t] = <<>> /\ thrown'[t] = <<>>
                /\ C35_Holds(stack'[t]) /\ ~C35_Holds(stack[t]))
              => /\ Transport(t)
                 /\ sent' = Append(sent, TransportCall(t))
                 /\ C35_Raw(stack'[t]).url = Top(t).url
          /\ (C35_Holds(stack'[t]) /\ thrown'[t] = <<>>)
              => C35_Raw(stack'[t]).url = sent'[Len(sent')].url
          /\ (FetchReturn(t) /\ Depth(t) = 1)
              => /\ outcome'[t].state = "fulfilled"
                 /\ outcome'[t].response = Top(t).response
          /\ (Depth(t) >= 1 /\ Len(stack'[t]) = Depth(t) + 1)
              => LET response == Val(Top(t).response)
                     g == stack'[t][Depth(t) + 1]
                 IN  \/ /\ g.via = "redirect"
                        /\ IsSome(response.headers.location)
                        /\ g.url = Resolve(RedirectLocation(Val(response.headers.location),
                                                            response.url),
                                           BUILDINGLINK_BASE_URL)
                     \/ /\ g.via = "script"
                        /\ C31_Matches(response)
                        /\ g.url = Resolve(Val(ScriptRedirect(Val(response.html))),
                                           BUILDINGLINK_BASE_URL)
                     \/ /\ g.via = "login"
                        /\ g.url = Resolve(FormAction(response), BUILDINGLINK_BASE_URL)]_vars

\* C35 witness: a fetch in which the login form was submitted has
\* returned; the caller has the response of the last transport call, which
\* is not a response for the URL the caller asked for.
C35_Witness ==
    /\ stack[1] = <<>>
    /\ outcome[1].state = "fulfilled"
    /\ Len(sent) >= 2
    /\ \A i \in 2..Len(sent) : sent[i].depth > 1
    /\ \E k \in 2..Len(sent) : C33_IsSubmission(k)
    /\ outcome[1].response[1].url = sent[Len(sent)].url
    /\ outcome[1].response[1].url # sent[1].url

====
